---- MODULE Spec2Model ----
\* Model of the pico-cs go-client protocol engine (src/client/client.go):
\* the command engine (call/write/read under the mutex), the reader
\* goroutine (reply router), the pusher goroutine (push dispatcher), Close,
\* and the device on the other end of the transport.
EXTENDS Integers, Sequences, FiniteSets, TLC

\* ---------------------------------------------------------------- bounds
NCalls   == 2   \* number of calls issued on the client
MaxLines == 4   \* number of lines the device sends in a session
InCap    == 1   \* lines in transit from the device to the reader
MaxUint  == 300 \* largest unsigned integer given to the scalar decoders
MaxArgs  == 2   \* arguments of a command given to write
NHex     == 2   \* texts tried for each byte of a board identifier
MaxEntries == 3 \* entry lines of a refresh buffer reply
MaxIdx   == 3   \* largest slot index of an entry
MaxLineLen == 3 \* byte groups of a line given to the reader
MaxPush  == 102 \* push lines of a device that sends nothing else
MaxFlashLines == 2 \* content lines of a flash reply
MaxTokens == 2  \* byte tokens of a content line

\* ------------------------------------------------------ program constants
replyChSize == 1
pushChSize  == 100

tagStart     == "+"
tagSuccess   == "="
tagNoSuccess == "?"
tagMulti     == "-"
tagEOR       == "."
tagPush      == "!"

charTrue   == "t"
charFalse  == "f"
charToggle == "~"

CR == "\r"

Calls == 1..NCalls
NoCall == 0

\* ------------------------------------------------------------- values
Nil   == [t |-> "nil"]
NoErr == "nil"

StrVal(p)   == [t |-> "str", v |-> p]
MultiVal(l) == [t |-> "multi", v |-> l]
ErrVal(e)   == [t |-> "err", v |-> e]

\* Mutant: the error table lacks the GPIO entry.
errorMapNoGPIO(msg) ==
    CASE msg = <<"invcmd">>    -> "ErrInvCmd"
      [] msg = <<"invprm">>    -> "ErrInvPrm"
      [] msg = <<"invnumprm">> -> "ErrInvNumPrm"
      [] msg = <<"nodata">>    -> "ErrNoData"
      [] msg = <<"nochange">>  -> "ErrNoChange"
      [] msg = <<"notimpl">>   -> "ErrNotImpl"
      [] OTHER                 -> "none"

errorMap(msg) ==
    CASE msg = <<"invcmd">>    -> "ErrInvCmd"
      [] msg = <<"invprm">>    -> "ErrInvPrm"
      [] msg = <<"invnumprm">> -> "ErrInvNumPrm"
      [] msg = <<"nodata">>    -> "ErrNoData"
      [] msg = <<"nochange">>  -> "ErrNoChange"
      [] msg = <<"invgpio">>   -> "ErrInvGPIO"
      [] msg = <<"notimpl">>   -> "ErrNotImpl"
      [] OTHER                 -> "none"

\* A line is a sequence of byte groups; the tag bytes are groups of their own.
Tail2(buf, i) == SubSeq(buf, i + 1, Len(buf))

RECURSIVE parseReplyFrom(_, _)
parseReplyFrom(buf, i) ==
    IF i > Len(buf) THEN [rk |-> "rkNone", msg |-> <<>>]
    ELSE CASE buf[i] = tagSuccess   -> [rk |-> "rkSingle", msg |-> Tail2(buf, i)]
           [] buf[i] = tagNoSuccess -> [rk |-> "rkError",  msg |-> Tail2(buf, i)]
           [] buf[i] = tagMulti     -> [rk |-> "rkMulti",  msg |-> Tail2(buf, i)]
           [] buf[i] = tagEOR       -> [rk |-> "rkEOR",    msg |-> <<>>]
           [] buf[i] = tagPush      -> [rk |-> "rkPush",   msg |-> Tail2(buf, i)]
           [] OTHER                 -> parseReplyFrom(buf, i + 1)

\* Mutant: a push line is taken for a fragment of a multi-line reply.
parseReplyPushAsMulti(buf) ==
    LET r == parseReplyFrom(buf, 1)
    IN IF r.rk = "rkPush" THEN [rk |-> "rkMulti", msg |-> r.msg] ELSE r

\* Mutant: the line is classified by its last tag byte.
RECURSIVE parseReplyBack(_, _)
parseReplyBack(buf, i) ==
    IF i < 1 THEN [rk |-> "rkNone", msg |-> <<>>]
    ELSE CASE buf[i] = tagSuccess   -> [rk |-> "rkSingle", msg |-> Tail2(buf, i)]
           [] buf[i] = tagNoSuccess -> [rk |-> "rkError",  msg |-> Tail2(buf, i)]
           [] buf[i] = tagMulti     -> [rk |-> "rkMulti",  msg |-> Tail2(buf, i)]
           [] buf[i] = tagEOR       -> [rk |-> "rkEOR",    msg |-> <<>>]
           [] buf[i] = tagPush      -> [rk |-> "rkPush",   msg |-> Tail2(buf, i)]
           [] OTHER                 -> parseReplyBack(buf, i - 1)

parseReplyLastTag(buf) == parseReplyBack(buf, Len(buf))

parseReply(buf) == parseReplyFrom(buf, 1)

\* ------------------------------------------------------------ operations
Ops == {"Help", "LocoDir", "ToggleLocoDir"}

\* The command code of the reboot operation, a byte group of its own.
cmdReboot == "reboot"

OpCmd(o) ==
    CASE o = "Help"   -> <<"h">>
      [] o = "Board"  -> <<"b">>
      [] o = "Reboot" -> << cmdReboot >>
      [] OTHER        -> <<"l", "d">>

UintArg(n) == [k |-> "uint", v |-> n]
ByteArg(n) == [k |-> "uint8", v |-> n]
BoolArg(b) == [k |-> "bool", v |-> b]
StrArg(x)  == [k |-> "string", v |-> x]

OpArgs(o) ==
    CASE o = "Help"          -> <<>>
      [] o = "LocoDir"       -> << UintArg(3) >>
      [] o = "ToggleLocoDir" -> << UintArg(3), StrArg(charToggle) >>
      [] OTHER               -> <<>>

OpShape(o) == IF o = "Help" THEN "multi" ELSE "single"

BoolVal(b) == [t |-> "bool", v |-> b]

\* strconv.ParseBool on a payload given as its characters.
ParseBool(s) ==
    CASE s \in { <<"1">>, <<"t">>, <<"T">>, <<"T","R","U","E">>,
                 <<"t","r","u","e">>, <<"T","r","u","e">> }
              -> [val |-> BoolVal(TRUE), err |-> NoErr]
      [] s \in { <<"0">>, <<"f">>, <<"F">>, <<"F","A","L","S","E">>,
                 <<"f","a","l","s","e">>, <<"F","a","l","s","e">> }
              -> [val |-> BoolVal(FALSE), err |-> NoErr]
      [] OTHER -> [val |-> BoolVal(FALSE), err |-> "ErrSyntax"]

formatBool(b) == IF b THEN charTrue ELSE charFalse

Digit(d) == <<"0", "1", "2", "3", "4", "5", "6", "7", "8", "9">>[d + 1]

RECURSIVE FormatUint(_)
FormatUint(n) ==
    IF n < 10 THEN << Digit(n) >>
    ELSE Append(FormatUint(n \div 10), Digit(n % 10))

\* ------------------------------------------------------------ texts
\* Texts are sequences of characters.
HexLower == <<"a", "b", "c", "d", "e", "f">>
HexUpper == <<"A", "B", "C", "D", "E", "F">>

\* The value of a character as a digit in the given base, -1 when it is none.
CharVal(ch, base) ==
    LET v == IF \E d \in 0..9 : Digit(d) = ch
             THEN CHOOSE d \in 0..9 : Digit(d) = ch
             ELSE IF \E d \in 1..6 : HexLower[d] = ch \/ HexUpper[d] = ch
                  THEN 9 + (CHOOSE d \in 1..6 : HexLower[d] = ch \/ HexUpper[d] = ch)
                  ELSE -1
    IN IF v < base THEN v ELSE -1

RECURSIVE NumVal(_, _)
NumVal(s, base) ==
    IF s = <<>> THEN 0
    ELSE NumVal(SubSeq(s, 1, Len(s) - 1), base) * base + CharVal(s[Len(s)], base)

\* strconv.ParseUint(s, base, bitSize): no sign, digits of the base only; a
\* value that does not fit in bitSize bits is a range error. For bitSize 0
\* (64 bits) no text of the model is long enough to be out of range.
ParseUint(s, base, bitSize) ==
    IF s = <<>> \/ \E i \in 1..Len(s) : CharVal(s[i], base) < 0
    THEN [val |-> 0, err |-> "ErrSyntax"]
    ELSE IF bitSize = 8 /\ NumVal(s, base) > 255
         THEN [val |-> 255, err |-> "ErrRange"]
         ELSE [val |-> NumVal(s, base), err |-> NoErr]

\* strconv.ParseInt(s, 10, 0): an optional sign, then as ParseUint.
ParseInt(s) ==
    IF s # <<>> /\ s[1] \in {"+", "-"}
    THEN LET r == ParseUint(Tail(s), 10, 0)
         IN IF r.err # NoErr THEN r
            ELSE [val |-> IF s[1] = "-" THEN 0 - r.val ELSE r.val, err |-> NoErr]
    ELSE ParseUint(s, 10, 0)

UintVal(n) == [t |-> "uint", v |-> n]

parseInt(s) ==
    LET r == ParseInt(s)
    IN IF r.err # NoErr THEN [val |-> 0, err |-> r.err] ELSE r

parseUint(s) ==
    LET r == ParseUint(s, 10, 0)
    IN IF r.err # NoErr THEN [val |-> 0, err |-> r.err] ELSE r

\* Mutant: parseByte takes the text for hexadecimal.
parseByteHex(s) ==
    LET r == ParseUint(s, 16, 8)
    IN IF r.err # NoErr THEN [val |-> 0, err |-> r.err] ELSE r

parseByte(s) ==
    LET r == ParseUint(s, 10, 8)
    IN IF r.err # NoErr THEN [val |-> 0, err |-> r.err] ELSE r

\* strings.Split(s, " "): the fields between the separators, empty ones too.
RECURSIVE Split(_)
Split(s) ==
    IF \E i \in 1..Len(s) : s[i] = " "
    THEN LET i == CHOOSE i \in 1..Len(s) :
                     s[i] = " " /\ \A j \in 1..(i - 1) : s[j] # " "
         IN << SubSeq(s, 1, i - 1) >> \o Split(SubSeq(s, i + 1, Len(s)))
    ELSE << s >>

\* ----------------------------------------------------- push messages
\* A push message as the handler gets it: its kind and the fields of the kind.
NoMsg == [kind |-> "nil", text |-> <<>>, gpio |-> 0, state |-> FALSE]

WifiMsg(text) == [kind |-> "wifi", text |-> text, gpio |-> 0, state |-> FALSE]

TCPMsg(text) == [kind |-> "tcp", text |-> text, gpio |-> 0, state |-> FALSE]

IOIEMsg(gpio, state) == [kind |-> "ioie", text |-> <<>>, gpio |-> gpio, state |-> state]

mcWifi == "wifi:"
mcTCP  == "tcp:"
mcIOIE == "ioie:"

parseWifiMsg(parts) ==
    IF Len(parts) # 1 THEN [msg |-> NoMsg, err |-> "ErrInvalidMsg"]
    ELSE [msg |-> WifiMsg(parts[1]), err |-> NoErr]

parseTCPMsg(parts) ==
    IF Len(parts) # 1 THEN [msg |-> NoMsg, err |-> "ErrInvalidMsg"]
    ELSE [msg |-> TCPMsg(parts[1]), err |-> NoErr]

\* Mutant: an input event message that lacks the state is taken for one with
\* the state false.
parseIOIEMsgLenient(parts) ==
    IF Len(parts) < 1 THEN [msg |-> NoMsg, err |-> "ErrInvalidMsg"]
    ELSE IF parseUint(parts[1]).err # NoErr
         THEN [msg |-> NoMsg, err |-> "ErrInvalidMsg"]
         ELSE [msg |-> IOIEMsg(parseUint(parts[1]).val, FALSE), err |-> NoErr]

parseIOIEMsg(parts) ==
    IF Len(parts) # 2 THEN [msg |-> NoMsg, err |-> "ErrInvalidMsg"]
    ELSE IF parseUint(parts[1]).err # NoErr
         THEN [msg |-> NoMsg, err |-> "ErrInvalidMsg"]
         ELSE IF ParseBool(parts[2]).err # NoErr
              THEN [msg |-> NoMsg, err |-> "ErrInvalidMsg"]
              ELSE [msg |-> IOIEMsg(parseUint(parts[1]).val, ParseBool(parts[2]).val.v),
                    err |-> NoErr]

\* parseMsg on a payload: the class is the first field, a byte group of its
\* own.
parseMsg(s) ==
    IF Len(s) = 0 THEN [msg |-> NoMsg, err |-> "ErrEmptyMsg"]
    ELSE LET parts == Split(s)
         IN CASE parts[1] = << mcWifi >> -> parseWifiMsg(Tail(parts))
              [] parts[1] = << mcTCP >>  -> parseTCPMsg(Tail(parts))
              [] parts[1] = << mcIOIE >> -> parseIOIEMsg(Tail(parts))
              [] OTHER                   -> [msg |-> NoMsg, err |-> "ErrInvalidMsg"]

VARIABLES
    newPc,        \* position of New: "goReader", "addReader", "addPusher", "ready"
    panicked,     \* the process died of an unrecovered panic
    handler,      \* TRUE when New was given a handler, FALSE for nil
    connState,    \* transport: "open", "eof" (EOF or read error), "closed" (Close)
    wire,         \* bytes written to the transport and not yet read by the device
    devPending,   \* lines of the reply the device is sending
    nLines,       \* lines the device has sent or committed to send
    nPush,        \* push lines the device has sent
    inbound,      \* lines in transit from the device to the reader
    rpc,          \* reader: "none", "scan", "sendReply", "sendPush", "done"
    rval,         \* value the reader is sending
    multi, multiMsg,
    fragsSince,   \* fragment payloads received since the last end-of-reply marker
    replyCh, replyClosed,
    pushCh, pushClosed,
    pushRead,     \* push payloads the reader has received, in order
    pushInReply,  \* a push line was received between fragments of a reply
    ppc,          \* pusher: "none", "recv", "handler", "closing", "done"
    handled,      \* payloads the pusher took for the handler, in order
    hmsgs,        \* what the handler was invoked with: message and error
    mu,           \* holder of the call mutex, NoCall when free
    w, wErr,      \* bufio.Writer: buffered chunks and its sticky error
    pc, op,
    callRes,      \* per call, what Client.call returned and why
    atDisc,       \* calls that were in flight when the transport disconnected
    wg,
    closePc,      \* Close: "idle", "wait", "returned"; Reconnect goes on with
                  \* "restart", "reconnected" or "failed"
    lastReadErr,
    fn, fin, fout \* decoder applied to a payload: its name, input and result

\* The variables of the payload decoders.
decVars == << fn, fin, fout >>

vars == << newPc, panicked, handler, connState, wire, devPending,
           nLines, nPush, inbound, rpc, rval, multi, multiMsg, fragsSince,
           replyCh, replyClosed, pushCh, pushClosed, pushRead, pushInReply, ppc,
           handled, hmsgs,
           mu, w, wErr, pc, op, callRes, atDisc, wg, closePc,
           lastReadErr, decVars >>

devVars    == << wire, devPending, nLines, nPush, inbound >>
readerVars == << rpc, rval, multi, multiMsg, fragsSince, replyCh, replyClosed,
                 pushCh, pushClosed, pushRead, pushInReply >>
pusherVars == << ppc, handled, hmsgs >>
callVars   == << mu, w, wErr, pc, op, callRes >>

Init ==
    /\ newPc = "goReader"
    /\ panicked = FALSE
    /\ handler = TRUE
    /\ connState = "open"
    /\ wire = <<>>
    /\ devPending = <<>>
    /\ nLines = 0
    /\ nPush = 0
    /\ inbound = <<>>
    /\ rpc = "none"
    /\ rval = Nil
    /\ multi = FALSE
    /\ multiMsg = <<>>
    /\ fragsSince = <<>>
    /\ replyCh = <<>>
    /\ replyClosed = FALSE
    /\ pushCh = <<>>
    /\ pushClosed = FALSE
    /\ pushRead = <<>>
    /\ pushInReply = FALSE
    /\ ppc = "none"
    /\ handled = <<>>
    /\ hmsgs = <<>>
    /\ mu = NoCall
    /\ w = <<>>
    /\ wErr = FALSE
    /\ pc = [c \in Calls |-> "idle"]
    /\ op = [c \in Calls |-> "Help"]
    /\ callRes = [c \in Calls |-> [val |-> Nil, err |-> NoErr, how |-> "none"]]
    /\ atDisc = {}
    /\ wg = 0
    /\ closePc = "idle"
    /\ lastReadErr = NoErr
    /\ fn = "none"
    /\ fin = <<>>
    /\ fout = Nil

\* ------------------------------------------------------------------ New
\* wg.Done: a counter that would become negative panics.
WgDone ==
    IF wg = 0
    THEN /\ panicked' = TRUE
         /\ wg' = wg
    ELSE /\ wg' = wg - 1
         /\ UNCHANGED panicked

\* New -> reader: the channels are made and the reader goroutine is started.
NewGoReader ==
    /\ ~panicked
    /\ newPc = "goReader"
    /\ newPc' = "addReader"
    /\ rpc' = "scan"
    /\ UNCHANGED << panicked, handler, connState, devVars, rval, multi, multiMsg,
                    fragsSince, replyCh, replyClosed, pushCh, pushClosed,
                    pushRead, pushInReply, pusherVars, callVars, atDisc, wg,
                    closePc, lastReadErr, decVars >>

\* reader's wg.Add(1), then New -> pusher: the pusher goroutine is started.
NewAddReader ==
    /\ ~panicked
    /\ newPc = "addReader"
    /\ newPc' = "addPusher"
    /\ wg' = wg + 1
    /\ ppc' = "recv"
    /\ UNCHANGED << panicked, handler, connState, devVars, readerVars, handled, hmsgs,
                    callVars, atDisc, closePc, lastReadErr, decVars >>

\* pusher's wg.Add(1); New returns.
NewAddPusher ==
    /\ ~panicked
    /\ newPc = "addPusher"
    /\ newPc' = "ready"
    /\ wg' = wg + 1
    /\ UNCHANGED << panicked, handler, connState, devVars, readerVars,
                    pusherVars, callVars, atDisc, closePc, lastReadErr, decVars >>

\* --------------------------------------------------------------- device
\* Calls that have been invoked and have not returned.
InFlight == { c \in Calls : pc[c] \notin {"idle", "done"} }

Letter(i) == <<"a", "b", "c", "d", "e", "f">>[i]

FragLine(k, i) == << tagMulti, Digit(k), Letter(i) >>

FragLines(k, n) == [i \in 1..n |-> FragLine(k, i)]

FragPayloads(k, n) == [i \in 1..n |-> << Digit(k), Letter(i) >>]

\* The error token the device uses when it refuses command k: one of the
\* error table and one that is not in it.
ErrToken(k) == IF k % 2 = 1 THEN "invcmd" ELSE "bogus"

\* The replies a device gives to command k of the given shape, as lines.
Answers(k, shape) ==
    { << << tagNoSuccess, ErrToken(k) >> >> }
    \cup
    ( IF shape = "single"
      THEN { << << tagSuccess, Digit(k) >> >> }
      ELSE { FragLines(k, n) \o << << tagEOR >> >> : n \in 0..(MaxLines - 1) } )

\* Index of the first line terminator on the wire, 0 when there is none.
LineEnd(ws) ==
    IF \E i \in 1..Len(ws) : ws[i].s = << CR >>
    THEN CHOOSE i \in 1..Len(ws) :
            /\ ws[i].s = << CR >>
            /\ \A j \in 1..(i - 1) : ws[j].s # << CR >>
    ELSE 0

CmdOf(line) == IF Len(line) >= 2 THEN line[2].s ELSE <<>>

ShapeOf(cmd) == IF cmd = << "h" >> THEN "multi" ELSE "single"

\* The device reads the oldest command line, decides its reply and sends the
\* first line of it.
DeviceAnswer ==
    /\ ~panicked
    /\ connState = "open"
    /\ devPending = <<>>
    /\ LineEnd(wire) > 0
    /\ Len(inbound) < InCap
    /\ LET n    == LineEnd(wire)
           line == SubSeq(wire, 1, n)
           k    == line[1].id
       IN /\ wire' = SubSeq(wire, n + 1, Len(wire))
          /\ \E a \in Answers(k, ShapeOf(CmdOf(line))) :
                /\ nLines + Len(a) <= MaxLines
                /\ nLines' = nLines + Len(a)
                /\ inbound' = Append(inbound, Head(a))
                /\ devPending' = Tail(a)
    /\ UNCHANGED << newPc, panicked, handler, connState, nPush, readerVars,
                    pusherVars, callVars, atDisc, wg, closePc, lastReadErr, decVars >>

\* The device sends the next line of the reply it is giving.
DeviceSend ==
    /\ ~panicked
    /\ connState = "open"
    /\ devPending # <<>>
    /\ Len(inbound) < InCap
    /\ inbound' = Append(inbound, Head(devPending))
    /\ devPending' = Tail(devPending)
    /\ UNCHANGED << newPc, panicked, handler, connState, wire, nLines, nPush,
                    readerVars, pusherVars, callVars, atDisc, wg, closePc,
                    lastReadErr, decVars >>

\* The payload of push line i: a Wifi message, a message of no known class,
\* an input event, an input event that lacks the state, and so on in turn.
PushPayload(i) ==
    CASE i % 4 = 1 -> << mcWifi, " " >> \o FormatUint(i)
      [] i % 4 = 2 -> << "p" >> \o FormatUint(i)
      [] i % 4 = 3 -> << mcIOIE, " " >> \o FormatUint(i) \o << " ", charTrue >>
      [] OTHER     -> << mcIOIE, " " >> \o FormatUint(i)

PushLine(i) == << tagPush >> \o PushPayload(i)

\* The device sends a push line, at any time.
DevicePush ==
    /\ ~panicked
    /\ connState = "open"
    /\ nLines < MaxLines
    /\ Len(inbound) < InCap
    /\ inbound' = Append(inbound, PushLine(nPush + 1))
    /\ nPush' = nPush + 1
    /\ nLines' = nLines + 1
    /\ UNCHANGED << newPc, panicked, handler, connState, wire, devPending,
                    readerVars, pusherVars, callVars, atDisc, wg, closePc,
                    lastReadErr, decVars >>

\* The transport fails: the device closes the connection or a read fails.
DeviceEOF ==
    /\ ~panicked
    /\ connState = "open"
    /\ connState' = "eof"
    /\ atDisc' = InFlight
    /\ UNCHANGED << newPc, panicked, handler, devVars, readerVars, pusherVars,
                    callVars, wg, closePc, lastReadErr, decVars >>

\* --------------------------------------------------------------- reader
\* Mutant: the accumulator is never started anew.
AppendFragmentNoReset(m, mm, msg) == Append(mm, msg)

\* The accumulator after a fragment line: a new one is started when the
\* reader is not collecting.
AppendFragment(m, mm, msg) ==
    IF ~m THEN << msg >> ELSE Append(mm, msg)

\* Mutant: every error line is mapped to the unknown error.
ErrorReplyUnknown(msg) == ErrVal("ErrUnknown")

\* The reply an error line is mapped to.
ErrorReply(msg) ==
    IF errorMap(msg) # "none" THEN ErrVal(errorMap(msg)) ELSE ErrVal("ErrUnknown")

\* replyCh <- v: completes at once when the channel has room, and blocks the
\* reader otherwise.
SendReply(v) ==
    IF Len(replyCh) < replyChSize
    THEN /\ replyCh' = Append(replyCh, v)
         /\ UNCHANGED << rpc, rval >>
    ELSE /\ rpc' = "sendReply"
         /\ rval' = v
         /\ UNCHANGED replyCh

\* pushCh <- msg, likewise.
SendPush(msg) ==
    IF Len(pushCh) < pushChSize
    THEN /\ pushCh' = Append(pushCh, msg)
         /\ UNCHANGED << rpc, rval >>
    ELSE /\ rpc' = "sendPush"
         /\ rval' = StrVal(msg)
         /\ UNCHANGED pushCh

\* scanner.Scan() returns a line; the reader classifies it and acts on it.
ReaderLine ==
    /\ ~panicked
    /\ rpc = "scan"
    /\ inbound # <<>>
    /\ inbound' = Tail(inbound)
    /\ LET r == parseReply(Head(inbound))
       IN CASE r.rk = "rkError" ->
                 /\ SendReply(ErrorReply(r.msg))
                 /\ UNCHANGED << multi, multiMsg, fragsSince, pushCh, pushRead, pushInReply >>
            [] r.rk = "rkSingle" ->
                 /\ SendReply(StrVal(r.msg))
                 /\ UNCHANGED << multi, multiMsg, fragsSince, pushCh, pushRead, pushInReply >>
            [] r.rk = "rkPush" ->
                 /\ SendPush(r.msg)
                 /\ pushRead' = Append(pushRead, r.msg)
                 /\ pushInReply' = (pushInReply \/ multi)
                 /\ UNCHANGED << multi, multiMsg, fragsSince, replyCh >>
            [] r.rk = "rkMulti" ->
                 /\ multiMsg' = AppendFragment(multi, multiMsg, r.msg)
                 /\ multi' = TRUE
                 /\ fragsSince' = Append(fragsSince, r.msg)
                 /\ UNCHANGED << rpc, rval, replyCh, pushCh, pushRead, pushInReply >>
            [] r.rk = "rkEOR" ->
                 /\ SendReply(MultiVal(multiMsg))
                 /\ multi' = FALSE
                 /\ fragsSince' = <<>>
                 /\ UNCHANGED << multiMsg, pushCh, pushRead, pushInReply >>
            [] OTHER ->
                 UNCHANGED << rpc, rval, multi, multiMsg, fragsSince, replyCh,
                              pushCh, pushRead, pushInReply >>
    /\ UNCHANGED << newPc, panicked, handler, connState, wire, devPending,
                    nLines, nPush, replyClosed, pushClosed, pusherVars,
                    callVars, atDisc, wg, closePc, lastReadErr, decVars >>

\* The blocked send completes: the channel the reader waits on has room.
ReaderSend ==
    /\ ~panicked
    /\ rpc \in { "sendReply", "sendPush" }
    /\ IF rpc = "sendReply"
       THEN /\ Len(replyCh) < replyChSize
            /\ replyCh' = Append(replyCh, rval)
            /\ UNCHANGED pushCh
       ELSE /\ Len(pushCh) < pushChSize
            /\ pushCh' = Append(pushCh, rval.v)
            /\ UNCHANGED replyCh
    /\ rpc' = "scan"
    /\ rval' = Nil
    /\ UNCHANGED << newPc, panicked, handler, connState, devVars, multi,
                    multiMsg, fragsSince, replyClosed, pushClosed,
                    pushRead, pushInReply, pusherVars, callVars, atDisc, wg,
                    closePc,
                    lastReadErr, decVars >>

\* scanner.Scan() returns false (EOF, read error, closed transport): the
\* reader closes both channels and leaves.
ReaderEnd ==
    /\ ~panicked
    /\ rpc = "scan"
    /\ connState # "open"
    /\ rpc' = "done"
    /\ replyClosed' = TRUE
    /\ pushClosed' = TRUE
    /\ WgDone
    /\ UNCHANGED << newPc, handler, connState, devVars, rval, multi, multiMsg,
                    fragsSince, replyCh, pushCh, pushRead, pushInReply, pusherVars,
                    callVars, atDisc, closePc, lastReadErr, decVars >>

\* --------------------------------------------------------------- pusher
\* Mutant: the pusher takes it that a handler is configured.
HandlerGivenAlways == TRUE

\* handler != nil
HandlerGiven == handler

\* for s := range pushCh: the next payload is taken and, when a handler is
\* configured, the handler is invoked with it.
PusherRecv ==
    /\ ~panicked
    /\ ppc = "recv"
    /\ pushCh # <<>>
    /\ pushCh' = Tail(pushCh)
    /\ IF HandlerGiven
       THEN /\ ppc' = "handler"
            /\ handled' = Append(handled, Head(pushCh))
            /\ hmsgs' = Append(hmsgs, parseMsg(Head(pushCh)))
       ELSE UNCHANGED << ppc, handled, hmsgs >>
    /\ UNCHANGED << newPc, panicked, handler, connState, devVars, rpc, rval,
                    multi, multiMsg, fragsSince, replyCh, replyClosed,
                    pushClosed, pushRead, pushInReply, callVars, atDisc, wg,
                    closePc, lastReadErr, decVars >>

\* The handler returns.
PusherReturn ==
    /\ ~panicked
    /\ ppc = "handler"
    /\ ppc' = "recv"
    /\ UNCHANGED << newPc, panicked, handler, connState, devVars, readerVars,
                    handled, hmsgs, callVars, atDisc, wg, closePc, lastReadErr,
                    decVars >>

\* Mutant: the range loop ends as soon as the channel is closed.
RangeEndsOnClose(ch, closed) == closed

\* for ... range ch ends when the channel is closed and drained.
RangeEnds(ch, closed) == ch = <<>> /\ closed

\* The push channel is closed and drained: the pusher leaves.
PusherEnd ==
    /\ ~panicked
    /\ ppc = "recv"
    /\ RangeEnds(pushCh, pushClosed)
    /\ ppc' = "done"
    /\ WgDone
    /\ UNCHANGED << newPc, handler, connState, devVars, readerVars, handled, hmsgs,
                    callVars, atDisc, closePc, lastReadErr, decVars >>

\* ---------------------------------------------------------- command engine
\* Mutant: Lock does not wait for the mutex.
CanLockAlways == TRUE

\* c.mu.Lock() returns when the mutex is free.
CanLock == mu = NoCall

\* Mutant: write accepts a string argument and writes it as it is.
WritePanicsNever(args) == FALSE

\* write panics on an argument whose kind is neither Bool nor Uint8 nor Uint.
WritePanics(args) ==
    \E i \in 1..Len(args) : args[i].k \notin {"bool", "uint8", "uint"}

\* A byte written as it is: value 13 is the carriage return.
RawByte(n) == IF n = 13 THEN CR ELSE IF n = 32 THEN " " ELSE "#"

\* Mutant: a byte-typed argument is written as the raw byte.
FormatArgRawByte(a) ==
    CASE a.k = "bool"   -> << formatBool(a.v) >>
      [] a.k = "uint"   -> FormatUint(a.v)
      [] a.k = "uint8"  -> << RawByte(a.v) >>
      [] OTHER          -> << a.v >>

FormatArg(a) ==
    CASE a.k = "bool"              -> << formatBool(a.v) >>
      [] a.k \in {"uint8", "uint"} -> FormatUint(a.v)
      [] OTHER                     -> << a.v >>

Chunk(c, s) == [id |-> c, s |-> s]

RECURSIVE ArgChunks(_, _)
ArgChunks(c, args) ==
    IF args = <<>> THEN <<>>
    ELSE << Chunk(c, << " " >>), Chunk(c, FormatArg(Head(args))) >>
         \o ArgChunks(c, Tail(args))

\* What the argument loop of write has buffered when it panics: the
\* arguments before the one it does not know, and the separator of that one.
RECURSIVE ArgChunksToPanic(_, _)
ArgChunksToPanic(c, args) ==
    IF args = <<>> THEN <<>>
    ELSE IF WritePanics(<< Head(args) >>)
         THEN << Chunk(c, << " " >>) >>
         ELSE << Chunk(c, << " " >>), Chunk(c, FormatArg(Head(args))) >>
              \o ArgChunksToPanic(c, Tail(args))

\* What write buffers before the arguments, and from the arguments on.
HeadChunks(c, cmd) == << Chunk(c, << tagStart >>), Chunk(c, cmd) >>

TailChunks(c, args) == ArgChunks(c, args) \o << Chunk(c, << CR >>) >>

\* bufio.Writer: once a write has failed, nothing more is buffered.
Buffered(buf, chunks) == IF wErr THEN buf ELSE buf \o chunks

\* Outcomes of writing to the transport: TRUE when the write succeeds.
WriteOutcomes ==
    CASE connState = "open"   -> { TRUE }
      [] connState = "closed" -> { FALSE }
      [] OTHER                -> { TRUE, FALSE }

\* Mutant: read hands an error reply on as a value.
readReplyErrAsValue(reply) == [val |-> reply, err |-> NoErr, how |-> "reply"]

\* What read() returns for a value taken from the reply channel.
readReply(reply) ==
    IF reply.t = "err"
    THEN [val |-> Nil, err |-> reply.v, how |-> "reply"]
    ELSE [val |-> reply, err |-> NoErr, how |-> "reply"]

\* What read() returns when the reply channel is closed.
readClosed == [val |-> Nil, err |-> lastReadErr, how |-> "closed"]

\* What read() returns when the wait has elapsed.
readTimeout == [val |-> Nil, err |-> "timeout", how |-> "timeout"]

writeFailed == [val |-> Nil, err |-> "werr", how |-> "werr"]

\* Mutant: callSingle hands on the result without the type check.
callSingleNoCheck(r) == [val |-> r.val, err |-> r.err]

callSingle(r) ==
    IF r.err # NoErr THEN [val |-> Nil, err |-> r.err]
    ELSE IF r.val.t = "str" THEN [val |-> r.val, err |-> NoErr]
    ELSE [val |-> Nil, err |-> "badtype"]

\* Mutant: callMulti hands on the result without the type check.
callMultiNoCheck(r) == [val |-> r.val, err |-> r.err]

callMulti(r) ==
    IF r.err # NoErr THEN [val |-> Nil, err |-> r.err]
    ELSE IF r.val.t = "multi" THEN [val |-> r.val, err |-> NoErr]
    ELSE [val |-> Nil, err |-> "badtype"]

OpResult(o, r) == IF OpShape(o) = "single" THEN callSingle(r) ELSE callMulti(r)

\* Mutant: the mutex is not released when call returns.
ReturnNoUnlock(c, r) ==
    /\ callRes' = [callRes EXCEPT ![c] = r]
    /\ pc' = [pc EXCEPT ![c] = "done"]
    /\ UNCHANGED mu

\* Client.call returns r: the deferred Unlock runs and the operation returns.
Return(c, r) ==
    /\ callRes' = [callRes EXCEPT ![c] = r]
    /\ pc' = [pc EXCEPT ![c] = "done"]
    /\ mu' = NoCall

\* What the public operation returns for what call returned: on an error the
\* zero result and the error, without decoding; else the decoded payload.
OpReturn(o, r) ==
    LET s == OpResult(o, r)
    IN IF o = "Help"
       THEN [val |-> s.val, err |-> s.err, decoded |-> FALSE]
       ELSE IF s.err # NoErr
            THEN [val |-> BoolVal(FALSE), err |-> s.err, decoded |-> FALSE]
            ELSE [val |-> ParseBool(s.val.v).val, err |-> ParseBool(s.val.v).err,
                  decoded |-> TRUE]

\* What the public operation of call c returned.
opRes(c) == OpResult(op[c], callRes[c])

opRet(c) == OpReturn(op[c], callRes[c])

\* Calls that returned the timeout error.
timedOut == { c \in Calls : callRes[c].how = "timeout" }

\* A caller invokes a public operation and call acquires the mutex.
Lock(c) ==
    /\ ~panicked
    /\ newPc = "ready"
    /\ pc[c] = "idle"
    /\ \A d \in Calls : d < c => pc[d] # "idle"
    /\ CanLock
    /\ mu' = c
    /\ \E o \in Ops : op' = [op EXCEPT ![c] = o]
    /\ pc' = [pc EXCEPT ![c] = "head"]
    /\ UNCHANGED << newPc, panicked, handler, connState, devVars, readerVars,
                    pusherVars, w, wErr, callRes, atDisc, wg, closePc,
                    lastReadErr, decVars >>

\* write: the start marker and the command code are buffered.
WriteHead(c) ==
    /\ ~panicked
    /\ pc[c] = "head"
    /\ w' = Buffered(w, HeadChunks(c, OpCmd(op[c])))
    /\ pc' = [pc EXCEPT ![c] = "tail"]
    /\ UNCHANGED << newPc, panicked, handler, connState, devVars, readerVars,
                    pusherVars, mu, wErr, op, callRes, atDisc,
                    wg, closePc, lastReadErr, decVars >>

\* write: the arguments and the line terminator are buffered and Flush hands
\* the buffer to the transport; on failure call returns the error without
\* reading. An argument of a kind write does not know makes it panic when
\* the loop comes to it: what was buffered stays in the buffer, the deferred
\* Unlock releases the mutex and the operation does not return.
WriteTail(c) ==
    /\ ~panicked
    /\ pc[c] = "tail"
    /\ IF WritePanics(OpArgs(op[c]))
       THEN /\ panicked' = TRUE
            /\ pc' = [pc EXCEPT ![c] = "panic"]
            /\ mu' = NoCall
            /\ w' = Buffered(w, ArgChunksToPanic(c, OpArgs(op[c])))
            /\ UNCHANGED << wire, wErr, callRes >>
       ELSE
       /\ UNCHANGED panicked
       /\ LET buf == Buffered(w, TailChunks(c, OpArgs(op[c])))
          IN \E ok \in (IF wErr THEN { FALSE } ELSE WriteOutcomes) :
             IF ok
             THEN /\ wire' = wire \o buf
                  /\ w' = <<>>
                  /\ pc' = [pc EXCEPT ![c] = "read"]
                  /\ UNCHANGED << wErr, mu, callRes >>
             ELSE /\ wErr' = TRUE
                  /\ w' = buf
                  /\ Return(c, writeFailed)
                  /\ UNCHANGED wire
    /\ UNCHANGED << newPc, handler, connState, devPending, inbound,
                    nLines, nPush, readerVars, pusherVars, op, atDisc,
                    wg, closePc, lastReadErr, decVars >>

\* read: a reply is taken from the reply channel.
ReadReply(c) ==
    /\ ~panicked
    /\ pc[c] = "read"
    /\ replyCh # <<>>
    /\ replyCh' = Tail(replyCh)
    /\ Return(c, readReply(Head(replyCh)))
    /\ UNCHANGED << newPc, panicked, handler, connState, devVars, rpc, rval,
                    multi, multiMsg, fragsSince, replyClosed, pushCh,
                    pushClosed, pushRead, pushInReply, pusherVars, w, wErr, op,
                    atDisc, wg, closePc, lastReadErr, decVars >>

\* read: the reply channel is closed and empty.
ReadClosed(c) ==
    /\ ~panicked
    /\ pc[c] = "read"
    /\ replyCh = <<>>
    /\ replyClosed
    /\ Return(c, readClosed)
    /\ UNCHANGED << newPc, panicked, handler, connState, devVars, readerVars,
                    pusherVars, w, wErr, op, atDisc, wg, closePc, lastReadErr, decVars >>

\* read: the wait elapses with no reply in the channel and the channel open.
ReadTimeout(c) ==
    /\ ~panicked
    /\ pc[c] = "read"
    /\ replyCh = <<>>
    /\ ~replyClosed
    /\ Return(c, readTimeout)
    /\ UNCHANGED << newPc, panicked, handler, connState, devVars, readerVars,
                    pusherVars, w, wErr, op, atDisc, wg, closePc, lastReadErr, decVars >>

\* ---------------------------------------------------------------- Close
\* Mutant: Close does not wait for the goroutines.
WaitDoneAlways == TRUE

\* Mutant: the wait ends when one goroutine is still running.
WaitDoneButOne == wg <= 1

\* wg.Wait() returns when the counter is zero.
WaitDone == wg = 0

\* Close: c.conn.Close().
CloseConn ==
    /\ ~panicked
    /\ newPc = "ready"
    /\ closePc = "idle"
    /\ closePc' = "wait"
    /\ connState' = "closed"
    /\ atDisc' = IF connState = "open" THEN InFlight ELSE atDisc
    /\ UNCHANGED << newPc, panicked, handler, devVars, readerVars, pusherVars,
                    callVars, wg, lastReadErr, decVars >>

\* Close: c.wg.Wait() returns and Close returns; a handler that had invoked
\* it goes on.
CloseReturn ==
    /\ ~panicked
    /\ closePc = "wait"
    /\ WaitDone
    /\ closePc' = "returned"
    /\ ppc' = IF ppc = "closing" THEN "handler" ELSE ppc
    /\ UNCHANGED << newPc, panicked, handler, connState, devVars, readerVars,
                    handled, hmsgs, callVars, atDisc, wg, lastReadErr, decVars >>

\* ------------------------------------------------------- payload decoders
\* The reply the reader puts on the reply channel for a single reply line.
LineReply(line) ==
    LET r == parseReply(line)
    IN CASE r.rk = "rkError"  -> ErrorReply(r.msg)
         [] r.rk = "rkSingle" -> StrVal(r.msg)
         [] OTHER             -> Nil

\* The scalar operations: what they decode the payload with.
ScalarKinds == {"bool", "uint", "byte"}

DecodeScalar(kind, v) ==
    CASE kind = "bool" ->
            [val |-> ParseBool(v).val, err |-> ParseBool(v).err]
      [] kind = "uint" ->
            [val |-> UintVal(parseUint(v).val), err |-> parseUint(v).err]
      [] kind = "byte" ->
            [val |-> UintVal(parseByte(v).val), err |-> parseByte(v).err]

ZeroScalar(kind) == IF kind = "bool" THEN BoolVal(FALSE) ELSE UintVal(0)

\* A scalar operation for the reply line the device sends: the reader, read,
\* callSingle and the decoder of the operation.
ScalarOp(kind, line) ==
    LET r == callSingle(readReply(LineReply(line)))
    IN IF r.err # NoErr
       THEN [val |-> ZeroScalar(kind), err |-> r.err, decoded |-> FALSE]
       ELSE [val |-> DecodeScalar(kind, r.val.v).val,
             err |-> DecodeScalar(kind, r.val.v).err, decoded |-> TRUE]

\* The text of a scalar in a reply of the device.
EncodeScalar(kind, v) ==
    IF kind = "bool" THEN << formatBool(v) >> ELSE FormatUint(v)

ScalarValues(kind) ==
    CASE kind = "bool" -> BOOLEAN
      [] kind = "uint" -> 0..MaxUint
      [] kind = "byte" -> 0..255

\* Set operation with a scalar reply: the device answers with the encoded
\* value.
ApplyScalar ==
    /\ fn = "none"
    /\ \E kind \in ScalarKinds : \E v \in ScalarValues(kind) :
          /\ fn' = "scalar"
          /\ fin' = [kind |-> kind, v |-> v,
                     line |-> << tagSuccess >> \o EncodeScalar(kind, v)]
          /\ fout' = ScalarOp(kind, fin'.line)
    /\ UNCHANGED << newPc, panicked, handler, connState, devVars, readerVars,
                    pusherVars, callVars, atDisc, wg, closePc, lastReadErr >>

\* The error tokens a device may send: those of the error table and others.
ErrTokens ==
    {"invcmd", "invprm", "invnumprm", "nodata", "nochange", "invgpio",
     "notimpl", "bogus", "Invcmd", "unknown"}

\* An operation whose command the device answers with an error line.
ApplyError ==
    /\ fn = "none"
    /\ \E tok \in ErrTokens : \E kind \in ScalarKinds :
          /\ fn' = "error"
          /\ fin' = [kind |-> kind, tok |-> tok, line |-> << tagNoSuccess, tok >>]
          /\ fout' = ScalarOp(kind, fin'.line)
    /\ UNCHANGED << newPc, panicked, handler, connState, devVars, readerVars,
                    pusherVars, callVars, atDisc, wg, closePc, lastReadErr >>

\* The characters of the chunks write hands to the transport.
RECURSIVE Flatten(_)
Flatten(chunks) ==
    IF chunks = <<>> THEN <<>> ELSE Head(chunks).s \o Flatten(Tail(chunks))

\* Command codes and argument lists of the operations, by argument types.
WriteCmds == { <<"h">>, <<"l", "d">>, <<"l", "c", "v", "b", "y", "t", "e">> }

NArgValues == 10

ArgValue(j) ==
    CASE j <= 4 -> UintArg(<<0, 3, 13, 10239>>[j])
      [] j <= 8 -> ByteArg(<<0, 13, 32, 255>>[j - 4])
      [] OTHER  -> BoolArg(j = 9)

\* write(cmd, args) with a transport that accepts the line.
ApplyWrite ==
    /\ fn = "none"
    /\ \E cmd \in WriteCmds : \E n \in 0..MaxArgs :
       \E ix \in [1..n -> 1..NArgValues] :
          /\ fn' = "write"
          /\ fin' = [cmd |-> cmd, args |-> [i \in 1..n |-> ArgValue(ix[i])]]
          /\ fout' = Flatten(HeadChunks(1, cmd) \o TailChunks(1, fin'.args))
    /\ UNCHANGED << newPc, panicked, handler, connState, devVars, readerVars,
                    pusherVars, callVars, atDisc, wg, closePc, lastReadErr >>

\* The delete operations on the refresh buffer: DelLoco of the earlier
\* revision calls callSingle with the command code alone, RBufDel with the
\* command code and the address.
DeleteOps == {"DelLoco", "RBufDel"}

DeleteCmd(o) == IF o = "DelLoco" THEN <<"c", "d">> ELSE <<"r", "d">>

DeleteArgs(o, addr) == IF o = "DelLoco" THEN <<>> ELSE << UintArg(addr) >>

\* A delete operation with a transport that accepts the line.
ApplyDelete ==
    /\ fn = "none"
    /\ \E o \in DeleteOps, addr \in {0, 3, 13, MaxUint} :
          /\ fn' = "delete"
          /\ fin' = [op |-> o, addr |-> addr]
          /\ fout' = Flatten(HeadChunks(1, DeleteCmd(o))
                             \o TailChunks(1, DeleteArgs(o, addr)))
    /\ UNCHANGED << newPc, panicked, handler, connState, devVars, readerVars,
                    pusherVars, callVars, atDisc, wg, closePc, lastReadErr >>

\* ---------------------------------------------------------- board decoder
numIDParts    == 8
numBoardValue == numIDParts + 1

\* Mutant: the field count is only a lower limit.
FieldCountAtLeast(values, n) == Len(values) >= n

\* The arity check of the decoders: len(values) != n is an error.
FieldCountOk(values, n) == Len(values) = n

btValues(kw) ==
    CASE kw = <<"p", "i", "c", "o">>           -> "BtPico"
      [] kw = <<"p", "i", "c", "o", "_", "w">> -> "BtPicoW"
      [] OTHER                                 -> "BtUnknown"

\* A 64 bit identifier is held as its 8 bytes, the least significant first.
ZeroID == [k \in 1..8 |-> 0]

\* Mutant: the bytes are assembled little-endian.
OrShiftLittle(id, u, shift) == [id EXCEPT ![8 - (shift \div 8)] = u]

\* id |= u << shift, for a byte u and a shift that is a multiple of 8 and is
\* used once: the byte at that position becomes u.
OrShift(id, u, shift) == [id EXCEPT ![(shift \div 8) + 1] = u]

RECURSIVE BoardID(_, _, _, _)
BoardID(values, i, shift, id) ==
    IF i = numIDParts THEN [val |-> id, err |-> NoErr]
    ELSE LET r == ParseUint(values[i + 2], 16, 8)
         IN IF r.err # NoErr THEN [val |-> Nil, err |-> r.err]
            ELSE BoardID(values, i + 1, shift - 8, OrShift(id, r.val, shift))

parseBoard(s) ==
    LET values == Split(s)
    IN IF ~FieldCountOk(values, numBoardValue)
       THEN [val |-> Nil, err |-> "ErrNumValues"]
       ELSE LET r == BoardID(values, 0, 56, ZeroID)
            IN IF r.err # NoErr THEN [val |-> Nil, err |-> r.err]
               ELSE [val |-> [Type |-> btValues(values[1]), ID |-> r.val],
                     err |-> NoErr]

\* strings.Join(fields, " ").
RECURSIVE Join(_)
Join(fields) ==
    IF fields = <<>> THEN <<>>
    ELSE IF Len(fields) = 1 THEN fields[1]
    ELSE fields[1] \o << " " >> \o Join(Tail(fields))

\* Board payloads of a device: a keyword and 8 bytes in hexadecimal, and
\* payloads with a field too few, a field too many or a field that is no
\* hexadecimal byte.
Keywords ==
    { <<"p", "i", "c", "o">>, <<"p", "i", "c", "o", "_", "w">>,
      <<"r", "p", "2">> }

\* The text and the value of byte i (0..7) of an identifier, by choice.
HexTok(i, ch) ==
    CASE ch = 1 -> << Digit(i), Digit(i) >>
      [] ch = 2 -> <<"f", "F">>
      [] ch = 3 -> <<"A">>
      [] OTHER  -> <<"0", "7">>

HexByte(i, ch) ==
    CASE ch = 1 -> 17 * i
      [] ch = 2 -> 255
      [] ch = 3 -> 10
      [] OTHER  -> 7

Defects == {"none", "short", "long", "badtok"}

\* The fields of a line with the defect applied to it.
WithDefect(fields, d) ==
    CASE d = "short"  -> SubSeq(fields, 1, Len(fields) - 1)
      [] d = "long"   -> Append(fields, <<"0">>)
      [] d = "badtok" -> [fields EXCEPT ![Len(fields)] = <<"x">>]
      [] OTHER        -> fields

\* Board: the payload is decoded.
ApplyBoard ==
    /\ fn = "none"
    /\ \E kw \in Keywords : \E ix \in [0..7 -> 1..NHex] : \E d \in Defects :
          /\ fn' = "parseBoard"
          /\ fin' = [kw |-> kw, hd |-> d, ed |-> "none",
                     bytes |-> [i \in 1..8 |-> HexByte(i - 1, ix[i - 1])],
                     text |-> Join(WithDefect(
                         << kw >> \o [i \in 1..8 |-> HexTok(i - 1, ix[i - 1])], d))]
          /\ fout' = parseBoard(fin'.text)
    /\ UNCHANGED << newPc, panicked, handler, connState, devVars, readerVars,
                    pusherVars, callVars, atDisc, wg, closePc, lastReadErr >>

\* ------------------------------------------------- refresh buffer decoders
NumBytes       == 19
numHeaderValue == 2
numEntryValue  == 18

ParseField(kind, s) ==
    CASE kind = "int"  -> parseInt(s)
      [] kind = "uint" -> parseUint(s)
      [] OTHER         -> parseByte(s)

\* rbuf.Parse: every field of an entry is a byte.
ByteKinds == [j \in 1..NumBytes |-> "byte"]

\* parseRBuf: Idx is an int, Addr a uint, the other fields are bytes.
RBufKinds ==
    [j \in 1..numEntryValue |->
        IF j = 1 THEN "int" ELSE IF j = 2 THEN "uint" ELSE "byte"]

FieldVals(values, kinds) ==
    [j \in 1..Len(kinds) |-> ParseField(kinds[j], values[j]).val]

\* The error of the first field that does not parse, NoErr when all do.
FirstErr(values, kinds) ==
    IF \E j \in 1..Len(kinds) : ParseField(kinds[j], values[j]).err # NoErr
    THEN LET j == CHOOSE j \in 1..Len(kinds) :
                    /\ ParseField(kinds[j], values[j]).err # NoErr
                    /\ \A k \in 1..(j - 1) :
                           ParseField(kinds[k], values[k]).err = NoErr
         IN ParseField(kinds[j], values[j]).err
    ELSE NoErr

\* parser: all fields are parsed and the error of the last one that does not
\* parse is kept.
LastErr(values, kinds) ==
    IF \E j \in 1..Len(kinds) : ParseField(kinds[j], values[j]).err # NoErr
    THEN "ErrParser"
    ELSE NoErr

\* parser, after the fields of a line have been parsed: every parse method
\* advances idx, and one that fails overwrites errIdx and err, so what is
\* left is the index (from 0) and the error of the last field that does not
\* parse; errIdx is 0 and err nil when all parse.
parserRun(values, kinds) ==
    LET bad == { j \in 1..Len(kinds) : ParseField(kinds[j], values[j]).err # NoErr }
    IN IF bad = {} THEN [errIdx |-> 0, err |-> NoErr]
       ELSE LET j == CHOOSE j \in bad : \A k \in bad : k <= j
            IN [errIdx |-> j - 1, err |-> ParseField(kinds[j], values[j]).err]

\* Entry lines of the right number of fields in which up to two fields, a
\* and b, hold a token that is no number or a number above 255.
BadTokens == { <<"x">>, <<"9", "9", "9">> }

EntryFields(a, ta, b, tb) ==
    [j \in 1..numEntryValue |->
        IF j = a THEN ta ELSE IF j = b THEN tb ELSE FormatUint(j)]

\* parseRBuf, one entry line: the parser is reset and parses the eighteen
\* fields; the decode error is the parser.
ApplyParser ==
    /\ fn = "none"
    /\ \E a \in 0..numEntryValue, b \in 0..numEntryValue, ta \in BadTokens, tb \in BadTokens :
          /\ a <= b
          /\ fn' = "parser"
          /\ fin' = EntryFields(a, ta, b, tb)
          /\ fout' = parserRun(EntryFields(a, ta, b, tb), RBufKinds)
    /\ UNCHANGED << newPc, panicked, handler, connState, devVars, readerVars,
                    pusherVars, callVars, atDisc, wg, closePc, lastReadErr >>

\* Mutant: the entries are left in the order of the lines.
SortByIdxNot(entries) == entries

\* slices.SortFunc by the slot index; for the short slices of the model it
\* is an insertion sort, which keeps the order of entries of equal index.
RECURSIVE InsertByIdx(_, _)
InsertByIdx(sorted, e) ==
    IF sorted = <<>> THEN << e >>
    ELSE IF e[1] < sorted[Len(sorted)][1]
         THEN Append(InsertByIdx(SubSeq(sorted, 1, Len(sorted) - 1), e),
                     sorted[Len(sorted)])
         ELSE Append(sorted, e)

RECURSIVE InsertionSort(_)
InsertionSort(entries) ==
    IF entries = <<>> THEN <<>>
    ELSE InsertByIdx(InsertionSort(SubSeq(entries, 1, Len(entries) - 1)),
                     entries[Len(entries)])

SortByIdx(entries) == InsertionSort(entries)

ZeroEntry == [j \in 1..NumBytes |-> 0]

\* rbuf.Parse, the loop over the entry lines from line i on: the entry is
\* stored at position i of the slice made for all entries, and the slice is
\* sorted.
RECURSIVE rbufEntries(_, _, _)
rbufEntries(lines, i, entries) ==
    IF i >= Len(lines) THEN [val |-> entries, err |-> NoErr]
    ELSE LET values == Split(lines[i + 1])
         IN IF ~FieldCountOk(values, NumBytes)
            THEN [val |-> Nil, err |-> "ErrNumValues"]
            ELSE IF FirstErr(values, ByteKinds) # NoErr
                 THEN [val |-> Nil, err |-> FirstErr(values, ByteKinds)]
                 ELSE rbufEntries(lines, i + 1,
                        SortByIdx([entries EXCEPT ![i] = FieldVals(values, ByteKinds)]))

IntKinds == [j \in 1..2 |-> "int"]

rbufParse(lines) ==
    IF Len(lines) < 1 THEN [val |-> Nil, err |-> "ErrNumLines"]
    ELSE LET values == Split(lines[1])
         IN IF ~FieldCountOk(values, 2)
            THEN [val |-> Nil, err |-> "ErrNumValues"]
            ELSE IF FirstErr(values, IntKinds) # NoErr
                 THEN [val |-> Nil, err |-> FirstErr(values, IntKinds)]
                 ELSE LET r == rbufEntries(lines, 1,
                                   [i \in 1..(Len(lines) - 1) |-> ZeroEntry])
                      IN IF r.err # NoErr THEN r
                         ELSE [val |-> [First |-> FieldVals(values, IntKinds)[1],
                                        Next |-> FieldVals(values, IntKinds)[2],
                                        Entries |-> r.val],
                               err |-> NoErr]

\* parseRBuf, the loop over the entry lines from line i on: the entry is
\* appended and the slice is sorted.
RECURSIVE parseRBufEntries(_, _, _)
parseRBufEntries(lines, i, entries) ==
    IF i >= Len(lines) THEN [val |-> entries, err |-> NoErr]
    ELSE LET values == Split(lines[i + 1])
         IN IF ~FieldCountOk(values, numEntryValue)
            THEN [val |-> Nil, err |-> "ErrNumValues"]
            ELSE IF LastErr(values, RBufKinds) # NoErr
                 THEN [val |-> Nil, err |-> LastErr(values, RBufKinds)]
                 ELSE parseRBufEntries(lines, i + 1,
                        SortByIdx(Append(entries, FieldVals(values, RBufKinds))))

parseRBuf(lines) ==
    IF Len(lines) < 1 THEN [val |-> Nil, err |-> "ErrNumLines"]
    ELSE LET values == Split(lines[1])
         IN IF ~FieldCountOk(values, numHeaderValue)
            THEN [val |-> Nil, err |-> "ErrNumValues"]
            ELSE IF LastErr(values, IntKinds) # NoErr
                 THEN [val |-> Nil, err |-> LastErr(values, IntKinds)]
                 ELSE LET r == parseRBufEntries(lines, 1, <<>>)
                      IN IF r.err # NoErr THEN r
                         ELSE [val |-> [First |-> FieldVals(values, IntKinds)[1],
                                        Next |-> FieldVals(values, IntKinds)[2],
                                        Entries |-> r.val],
                               err |-> NoErr]

\* Refresh buffer replies of a device. Entry e of nf fields with slot index
\* idx holds idx and then values that differ from field to field and from
\* entry to entry.
EntryVals(e, idx, nf) == [j \in 1..nf |-> IF j = 1 THEN idx ELSE (j - 1) + 20 * e]

EntryLine(e, idx, nf) == Join([j \in 1..nf |-> FormatUint(EntryVals(e, idx, nf)[j])])

\* The lines of a reply: the header, and the entries with slot indices ix in
\* wire order; hd is the defect of the header, ed that of the last entry.
RBufLines(nf, ix, hd, ed) ==
    << Join(WithDefect(<< <<"0">>, <<"1">> >>, hd)) >>
    \o [e \in 1..Len(ix) |->
          IF e = Len(ix)
          THEN Join(WithDefect(Split(EntryLine(e, ix[e], nf)), ed))
          ELSE EntryLine(e, ix[e], nf)]

RBufInputs(nf) ==
    { [nf |-> nf, ix |-> ix, hd |-> hd, ed |-> ed,
       lines |-> RBufLines(nf, ix, hd, ed)] :
        ix \in UNION { [1..n -> 0..MaxIdx] : n \in 0..MaxEntries },
        hd \in Defects, ed \in Defects }

\* rbuf.Parse is applied to the lines of a reply.
ApplyRBufParse ==
    /\ fn = "none"
    /\ \E inp \in RBufInputs(NumBytes) :
          /\ inp.ix = <<>> => inp.ed = "none"
          /\ fn' = "rbuf.Parse"
          /\ fin' = inp
          /\ fout' = rbufParse(inp.lines)
    /\ UNCHANGED << newPc, panicked, handler, connState, devVars, readerVars,
                    pusherVars, callVars, atDisc, wg, closePc, lastReadErr >>

\* parseRBuf is applied to the lines of a reply.
ApplyParseRBuf ==
    /\ fn = "none"
    /\ \E inp \in RBufInputs(numEntryValue) :
          /\ inp.ix = <<>> => inp.ed = "none"
          /\ fn' = "parseRBuf"
          /\ fin' = inp
          /\ fout' = parseRBuf(inp.lines)
    /\ UNCHANGED << newPc, panicked, handler, connState, devVars, readerVars,
                    pusherVars, callVars, atDisc, wg, closePc, lastReadErr >>

\* ----------------------------------------------------------- flash decoder
\* strings.TrimSpace for texts whose only white space is the space.
RECURSIVE TrimSpace(_)
TrimSpace(s) ==
    IF s = <<>> THEN s
    ELSE IF s[1] = " " THEN TrimSpace(Tail(s))
    ELSE IF s[Len(s)] = " " THEN TrimSpace(SubSeq(s, 1, Len(s) - 1))
    ELSE s

UintKinds == [j \in 1..3 |-> "uint"]

\* Mutant: the bytes of a line are put in front of those of the lines
\* before it.
RECURSIVE flashContentPrepend(_, _, _)
flashContentPrepend(lines, i, content) ==
    IF i >= Len(lines) THEN [val |-> content, err |-> NoErr]
    ELSE LET values == Split(TrimSpace(lines[i + 1]))
         IN IF \E j \in 1..Len(values) : ParseUint(values[j], 16, 8).err # NoErr
            THEN [val |-> Nil, err |-> "ErrSyntax"]
            ELSE flashContentPrepend(lines, i + 1,
                    [j \in 1..Len(values) |-> ParseUint(values[j], 16, 8).val] \o content)

\* flash.Parse, the loop over the content lines from line i on.
RECURSIVE flashContent(_, _, _)
flashContent(lines, i, content) ==
    IF i >= Len(lines) THEN [val |-> content, err |-> NoErr]
    ELSE LET values == Split(TrimSpace(lines[i + 1]))
         IN IF \E j \in 1..Len(values) : ParseUint(values[j], 16, 8).err # NoErr
            THEN [val |-> Nil, err |-> "ErrSyntax"]
            ELSE flashContent(lines, i + 1,
                    content \o [j \in 1..Len(values) |-> ParseUint(values[j], 16, 8).val])

flashParse(lines) ==
    IF Len(lines) < 1 THEN [val |-> Nil, err |-> "ErrNumLines"]
    ELSE LET values == Split(lines[1])
         IN IF ~FieldCountOk(values, 3)
            THEN [val |-> Nil, err |-> "ErrNumValues"]
            ELSE IF FirstErr(values, UintKinds) # NoErr
                 THEN [val |-> Nil, err |-> FirstErr(values, UintKinds)]
                 ELSE LET r == flashContent(lines, 1, <<>>)
                      IN IF r.err # NoErr THEN r
                         ELSE [val |-> [ReadIdx  |-> FieldVals(values, UintKinds)[1],
                                        WriteIdx |-> FieldVals(values, UintKinds)[2],
                                        PageNo   |-> FieldVals(values, UintKinds)[3],
                                        Content  |-> r.val],
                               err |-> NoErr]

\* Content lines of a flash reply of a device.
FlashContents ==
    { <<>>,
      << <<"0", "a", " ", "f", "f">> >>,
      << <<" ", "0", "a", " ", "f", "f", " ">> >>,
      << <<"0", "a">>, <<"z", "z">> >> }

\* flash.Parse is applied to the lines of a reply.
ApplyFlashParse ==
    /\ fn = "none"
    /\ \E hd \in Defects : \E content \in FlashContents :
          /\ fn' = "flash.Parse"
          /\ fin' = [hd |-> hd, ed |-> "none",
                     lines |-> << Join(WithDefect(<< <<"1">>, <<"2">>, <<"3">> >>, hd)) >>
                               \o content]
          /\ fout' = flashParse(fin'.lines)
    /\ UNCHANGED << newPc, panicked, handler, connState, devVars, readerVars,
                    pusherVars, callVars, atDisc, wg, closePc, lastReadErr >>

\* Flash replies of a device in which every token is a byte: the header
\* fields, and for every content line the way each of its bytes is written
\* (token t of line l is written HexTok of a number that differs from token
\* to token); a padded reply has a space before and after each content line.
FlashHeaders == { << 1, 2, 3 >>, << 0, MaxUint, 7 >> }

FlashTokens ==
    UNION { [1..n -> UNION { [1..m -> 1..NHex] : m \in 1..MaxTokens }] :
              n \in 0..MaxFlashLines }

TokenNo(l, t) == (l - 1) * MaxTokens + t

FlashLine(l, chs, padded) ==
    LET text == Join([t \in 1..Len(chs) |-> HexTok(TokenNo(l, t), chs[t])])
    IN IF padded THEN << " " >> \o text \o << " " >> ELSE text

FlashReply(hdr, toks, padded) ==
    << Join([j \in 1..3 |-> FormatUint(hdr[j])]) >>
    \o [l \in 1..Len(toks) |-> FlashLine(l, toks[l], padded)]

\* flash.Parse is applied to the lines of such a reply.
ApplyFlashReply ==
    /\ fn = "none"
    /\ \E hdr \in FlashHeaders, toks \in FlashTokens, padded \in BOOLEAN :
          /\ fn' = "flash.Parse"
          /\ fin' = [hd |-> "none", ed |-> "none",
                     lines |-> FlashReply(hdr, toks, padded),
                     hdr |-> hdr, toks |-> toks]
          /\ fout' = flashParse(fin'.lines)
    /\ UNCHANGED << newPc, panicked, handler, connState, devVars, readerVars,
                    pusherVars, callVars, atDisc, wg, closePc, lastReadErr >>

\* ------------------------------------------------------- line classification
\* The byte groups of the lines given to the reader: the tags, a byte that
\* is no tag and an error token.
LineBytes ==
    {tagSuccess, tagNoSuccess, tagMulti, tagEOR, tagPush, "x", "invcmd"}

LinesOfLen(n) == [1..n -> LineBytes]

\* The collecting flag and the accumulator of a reader: one that has
\* collected nothing, one that has emitted a reply of one fragment, and one
\* that is collecting and has one fragment.
ReaderStates ==
    { [multi |-> FALSE, multiMsg |-> <<>>],
      [multi |-> FALSE, multiMsg |-> << << "o" >> >>],
      [multi |-> TRUE,  multiMsg |-> << << "o" >> >>] }

\* A reader in one of these states finds one line on the transport.
ApplyLine ==
    /\ fn = "none"
    /\ \E n \in 0..MaxLineLen : \E line \in LinesOfLen(n) : \E st \in ReaderStates :
          /\ fn' = "line"
          /\ fin' = [line |-> line, multi |-> st.multi, multiMsg |-> st.multiMsg]
          /\ fout' = parseReply(line)
          /\ inbound' = << line >>
          /\ rpc' = "scan"
          /\ multi' = st.multi
          /\ multiMsg' = st.multiMsg
    /\ UNCHANGED << newPc, panicked, handler, connState, wire, devPending,
                    nLines, nPush, rval, fragsSince, replyCh, replyClosed,
                    pushCh, pushClosed, pushRead, pushInReply, pusherVars,
                    callVars, atDisc, wg, closePc, lastReadErr >>

\* ---------------------------------------------------- transport reconnect
reconnectRetry == 10

\* The error of connection attempt i.
ConnErr(i) == [t |-> "connerr", attempt |-> i]

NoConnErr == [t |-> "connerr", attempt |-> 0]

\* Mutant: the loop goes on after an attempt has succeeded.
RECURSIVE reconnectLoopAll(_, _, _, _)
reconnectLoopAll(oks, i, err, events) ==
    IF i >= reconnectRetry THEN [err |-> err, events |-> events]
    ELSE reconnectLoopAll(oks, i + 1,
                          IF oks[i + 1] THEN NoConnErr ELSE ConnErr(i + 1),
                          events \o << "sleep", "connect" >>)

\* Reconnect, the loop from round i on: time.Sleep(reconnectWait), then
\* connect, whose outcome is oks[i + 1]; events are the sleeps and attempts
\* made so far.
RECURSIVE reconnectLoop(_, _, _, _)
reconnectLoop(oks, i, err, events) ==
    IF i >= reconnectRetry THEN [err |-> err, events |-> events]
    ELSE IF oks[i + 1]
         THEN [err |-> NoConnErr, events |-> events \o << "sleep", "connect" >>]
         ELSE reconnectLoop(oks, i + 1, ConnErr(i + 1),
                            events \o << "sleep", "connect" >>)

Reconnect(oks) == reconnectLoop(oks, 0, NoConnErr, <<>>)

Transports == {"TCPClient", "Serial"}

\* Reconnect of a transport whose connection attempts succeed or fail as oks
\* says.
ApplyReconnect ==
    /\ fn = "none"
    /\ \E tr \in Transports : \E oks \in [1..reconnectRetry -> BOOLEAN] :
          /\ fn' = "Reconnect"
          /\ fin' = [transport |-> tr, oks |-> oks]
          /\ fout' = Reconnect(oks)
    /\ UNCHANGED << newPc, panicked, handler, connState, devVars, readerVars,
                    pusherVars, callVars, atDisc, wg, closePc, lastReadErr >>

Next ==
    \/ NewGoReader \/ NewAddReader \/ NewAddPusher
    \/ DeviceAnswer \/ DeviceSend \/ DevicePush \/ DeviceEOF
    \/ ReaderLine \/ ReaderSend \/ ReaderEnd
    \/ PusherRecv \/ PusherReturn \/ PusherEnd
    \/ \E c \in Calls : Lock(c)
    \/ \E c \in Calls : WriteHead(c)
    \/ \E c \in Calls : WriteTail(c)
    \/ \E c \in Calls : ReadReply(c)
    \/ \E c \in Calls : ReadClosed(c)
    \/ \E c \in Calls : ReadTimeout(c)
    \/ CloseConn \/ CloseReturn

Spec == Init /\ [][Next]_vars

\* The goroutines of the client and Close are scheduled: a step of the reader,
\* of the pusher (the handler returns), of a call or of Close that stays
\* possible is taken. The device and the callers are free to do nothing.
Fairness ==
    /\ WF_vars(ReaderLine) /\ WF_vars(ReaderSend) /\ WF_vars(ReaderEnd)
    /\ WF_vars(PusherRecv) /\ WF_vars(PusherReturn) /\ WF_vars(PusherEnd)
    /\ WF_vars(CloseReturn)
    /\ \A c \in Calls :
          /\ WF_vars(WriteHead(c)) /\ WF_vars(WriteTail(c))
          /\ WF_vars(ReadReply(c)) /\ WF_vars(ReadClosed(c))
          /\ WF_vars(ReadTimeout(c))

SpecFair == Spec /\ Fairness

\* The encoders and decoders applied to one input each.
DecodeNext ==
    \/ ApplyScalar \/ ApplyError \/ ApplyWrite
    \/ ApplyBoard \/ ApplyRBufParse \/ ApplyParseRBuf \/ ApplyFlashParse
    \/ ApplyLine \/ ReaderLine
    \/ ApplyReconnect \/ ApplyParser \/ ApplyFlashReply \/ ApplyDelete

SpecDecode == Init /\ [][DecodeNext]_vars

\* ------------------------------------------------------------ push traffic
\* A client made with no handler.
InitNoHandler ==
    /\ newPc = "goReader"
    /\ panicked = FALSE
    /\ handler = FALSE
    /\ connState = "open"
    /\ wire = <<>>
    /\ devPending = <<>>
    /\ nLines = 0
    /\ nPush = 0
    /\ inbound = <<>>
    /\ rpc = "none"
    /\ rval = Nil
    /\ multi = FALSE
    /\ multiMsg = <<>>
    /\ fragsSince = <<>>
    /\ replyCh = <<>>
    /\ replyClosed = FALSE
    /\ pushCh = <<>>
    /\ pushClosed = FALSE
    /\ pushRead = <<>>
    /\ pushInReply = FALSE
    /\ ppc = "none"
    /\ handled = <<>>
    /\ hmsgs = <<>>
    /\ mu = NoCall
    /\ w = <<>>
    /\ wErr = FALSE
    /\ pc = [c \in Calls |-> "idle"]
    /\ op = [c \in Calls |-> "Help"]
    /\ callRes = [c \in Calls |-> [val |-> Nil, err |-> NoErr, how |-> "none"]]
    /\ atDisc = {}
    /\ wg = 0
    /\ closePc = "idle"
    /\ lastReadErr = NoErr
    /\ fn = "none"
    /\ fin = <<>>
    /\ fout = Nil

\* The device sends one more push line.
DeviceFlood ==
    /\ ~panicked
    /\ connState = "open"
    /\ nPush < MaxPush
    /\ Len(inbound) < InCap
    /\ inbound' = Append(inbound, PushLine(nPush + 1))
    /\ nPush' = nPush + 1
    /\ nLines' = nLines + 1
    /\ UNCHANGED << newPc, panicked, handler, connState, wire, devPending,
                    readerVars, pusherVars, callVars, atDisc, wg, closePc,
                    lastReadErr, decVars >>

\* A client with a handler on a device that sends push lines only.
PushNext ==
    \/ NewGoReader \/ NewAddReader \/ NewAddPusher
    \/ DeviceFlood
    \/ ReaderLine \/ ReaderSend
    \/ PusherRecv \/ PusherReturn

SpecPush == Init /\ [][PushNext]_vars

\* A client with no handler on such a device: no handler is invoked, so none
\* returns.
NoHandlerNext ==
    \/ NewGoReader \/ NewAddReader \/ NewAddPusher
    \/ DeviceFlood
    \/ ReaderLine \/ ReaderSend
    \/ PusherRecv

SpecNoHandler == InitNoHandler /\ [][NoHandlerNext]_vars

\* New runs to its end, and the reader and the pusher are scheduled.
PushFairness ==
    /\ WF_vars(NewGoReader) /\ WF_vars(NewAddReader) /\ WF_vars(NewAddPusher)
    /\ WF_vars(ReaderLine) /\ WF_vars(ReaderSend)
    /\ WF_vars(PusherRecv)

SpecNoHandlerFair == SpecNoHandler /\ PushFairness

\* ------------------------------------------------------ recovered panics
\* The panic of write unwinds the caller's stack. A caller that recovers it
\* goes on with the same client; one that does not ends the process, which
\* is the last step of a behaviour of Spec.
recovered == [val |-> Nil, err |-> "panic", how |-> "panic"]

Recover(c) ==
    /\ panicked
    /\ pc[c] = "panic"
    /\ panicked' = FALSE
    /\ pc' = [pc EXCEPT ![c] = "done"]
    /\ callRes' = [callRes EXCEPT ![c] = recovered]
    /\ UNCHANGED << newPc, handler, connState, devVars, readerVars,
                    pusherVars, mu, w, wErr, op, atDisc, wg, closePc,
                    lastReadErr, decVars >>

RecoverNext == Next \/ \E c \in Calls : Recover(c)

SpecRecover == Init /\ [][RecoverNext]_vars

\* ------------------------------------------------------ reboot and reconnect
\* A session in which the first call is Reboot and the later calls, made
\* after Reconnect has returned, are Board.
SessionOp(c) == IF c = 1 THEN "Reboot" ELSE "Board"

SessionLock(c) ==
    /\ ~panicked
    /\ newPc = "ready"
    /\ pc[c] = "idle"
    /\ closePc = (IF c = 1 THEN "idle" ELSE "reconnected")
    /\ CanLock
    /\ mu' = c
    /\ op' = [op EXCEPT ![c] = SessionOp(c)]
    /\ pc' = [pc EXCEPT ![c] = "head"]
    /\ UNCHANGED << newPc, panicked, handler, connState, devVars, readerVars,
                    pusherVars, w, wErr, callRes, atDisc, wg, closePc,
                    lastReadErr, decVars >>

\* Client.Board: the payload of the single reply is decoded.
BoardReturn(r) ==
    IF callSingle(r).err # NoErr
    THEN [val |-> Nil, err |-> callSingle(r).err]
    ELSE parseBoard(callSingle(r).val.v)

\* The board line of the device.
BoardText ==
    Join(<< <<"p", "i", "c", "o", "_", "w">> >> \o [i \in 1..8 |-> HexTok(i - 1, 1)])

\* The device reads the reboot command, answers it or not, and goes down:
\* the connection ends.
DeviceReboot ==
    /\ ~panicked
    /\ connState = "open"
    /\ LineEnd(wire) > 0
    /\ CmdOf(SubSeq(wire, 1, LineEnd(wire))) = << cmdReboot >>
    /\ wire' = SubSeq(wire, LineEnd(wire) + 1, Len(wire))
    /\ \E answers \in BOOLEAN :
          IF answers
          THEN /\ Len(inbound) < InCap
               /\ inbound' = Append(inbound, << tagSuccess >>)
               /\ nLines' = nLines + 1
          ELSE UNCHANGED << inbound, nLines >>
    /\ connState' = "eof"
    /\ atDisc' = InFlight
    /\ UNCHANGED << newPc, panicked, handler, devPending, nPush, readerVars,
                    pusherVars, callVars, wg, closePc, lastReadErr, decVars >>

\* The device answers the board command.
DeviceBoard ==
    /\ ~panicked
    /\ connState = "open"
    /\ LineEnd(wire) > 0
    /\ CmdOf(SubSeq(wire, 1, LineEnd(wire))) = << "b" >>
    /\ Len(inbound) < InCap
    /\ wire' = SubSeq(wire, LineEnd(wire) + 1, Len(wire))
    /\ inbound' = Append(inbound, << tagSuccess >> \o BoardText)
    /\ nLines' = nLines + 1
    /\ UNCHANGED << newPc, panicked, handler, connState, devPending, nPush,
                    readerVars, pusherVars, callVars, atDisc, wg, closePc,
                    lastReadErr, decVars >>

\* Reconnect is invoked when the reboot operation has returned and no call
\* is in flight; it shuts the session down as Close does.
ReconnectClose ==
    /\ pc[1] = "done"
    /\ InFlight = {}
    /\ CloseConn

\* The outcomes of the connection attempts of the transport: none succeeds,
\* the third does, the first does.
ReconnectOutcomes ==
    { [i \in 1..reconnectRetry |-> FALSE],
      [i \in 1..reconnectRetry |-> i >= 3],
      [i \in 1..reconnectRetry |-> TRUE] }

\* Reconnect, after the shutdown: the transport reconnects. On success the
\* connection is a new one, the reply and the push channel are made anew and
\* the reader and the pusher are started again as New starts them; on
\* failure Reconnect returns the error.
ReconnectConnect ==
    /\ ~panicked
    /\ closePc = "returned"
    /\ \E oks \in ReconnectOutcomes :
          IF Reconnect(oks).err = NoConnErr
          THEN /\ closePc' = "restart"
               /\ connState' = "open"
               /\ newPc' = "goReader"
               /\ wire' = <<>>
               /\ devPending' = <<>>
               /\ inbound' = <<>>
               /\ rval' = Nil
               /\ multi' = FALSE
               /\ multiMsg' = <<>>
               /\ fragsSince' = <<>>
               /\ replyCh' = <<>>
               /\ replyClosed' = FALSE
               /\ pushCh' = <<>>
               /\ pushClosed' = FALSE
          ELSE /\ closePc' = "failed"
               /\ UNCHANGED << connState, newPc, wire, devPending, inbound,
                               rval, multi, multiMsg, fragsSince, replyCh,
                               replyClosed, pushCh, pushClosed >>
    /\ UNCHANGED << panicked, handler, nLines, nPush, rpc, pushRead,
                    pushInReply, pusherVars, callVars, atDisc, wg,
                    lastReadErr, decVars >>

\* Reconnect returns when the reader and the pusher have been started.
ReconnectReturn ==
    /\ ~panicked
    /\ closePc = "restart"
    /\ newPc = "ready"
    /\ closePc' = "reconnected"
    /\ UNCHANGED << newPc, panicked, handler, connState, devVars, readerVars,
                    pusherVars, callVars, atDisc, wg, lastReadErr, decVars >>

\* Each connection of the session carries one call at a time and the device
\* answers a command once, so the reader finds room for every reply it
\* sends.
SessionNext ==
    \/ NewGoReader \/ NewAddReader \/ NewAddPusher
    \/ DeviceReboot \/ DeviceBoard \/ DevicePush
    \/ ReaderLine \/ ReaderEnd
    \/ PusherRecv \/ PusherReturn \/ PusherEnd
    \/ \E c \in Calls : SessionLock(c)
    \/ \E c \in Calls : WriteHead(c)
    \/ \E c \in Calls : WriteTail(c)
    \/ \E c \in Calls : ReadReply(c)
    \/ \E c \in Calls : ReadClosed(c)
    \/ \E c \in Calls : ReadTimeout(c)
    \/ ReconnectClose \/ CloseReturn \/ ReconnectConnect \/ ReconnectReturn

SpecSession == Init /\ [][SessionNext]_vars

\* ------------------------------------------------- lines inside a reply
\* A device that sends single-value and error lines in between the lines of
\* its multi-line replies: it sends a script of lines, the first of them a
\* fragment, whatever the commands are.
StreamLines ==
    { << tagMulti, "a" >>, << tagMulti, "b" >>, << tagSuccess, "s" >>,
      << tagNoSuccess, "invcmd" >>, << tagEOR >> }

Scripts ==
    { << << tagMulti, "a" >> >> \o rest :
        rest \in UNION { [1..n -> StreamLines] : n \in 0..(MaxLines - 1) } }

DeviceScript ==
    /\ ~panicked
    /\ connState = "open"
    /\ devPending = <<>>
    /\ nLines = 0
    /\ \E script \in Scripts :
          /\ devPending' = script
          /\ nLines' = Len(script)
    /\ UNCHANGED << newPc, panicked, handler, connState, wire, inbound, nPush,
                    readerVars, pusherVars, callVars, atDisc, wg, closePc,
                    lastReadErr, decVars >>

StreamNext ==
    \/ NewGoReader \/ NewAddReader \/ NewAddPusher
    \/ DeviceScript \/ DeviceSend
    \/ ReaderLine \/ ReaderSend
    \/ \E c \in Calls : Lock(c)
    \/ \E c \in Calls : WriteHead(c)
    \/ \E c \in Calls : WriteTail(c)
    \/ \E c \in Calls : ReadReply(c)
    \/ \E c \in Calls : ReadTimeout(c)

SpecStream == Init /\ [][StreamNext]_vars

\* ------------------------------------------------- Close in the handler
\* The handler runs in the pusher goroutine. When it invokes Close, Close
\* closes the transport and waits in c.wg.Wait(); the handler goes on when
\* Close returns.
HandlerClose ==
    /\ ~panicked
    /\ newPc = "ready"
    /\ ppc = "handler"
    /\ closePc = "idle"
    /\ ppc' = "closing"
    /\ closePc' = "wait"
    /\ connState' = "closed"
    /\ atDisc' = IF connState = "open" THEN InFlight ELSE atDisc
    /\ UNCHANGED << newPc, panicked, handler, devVars, readerVars, handled,
                    hmsgs, callVars, wg, lastReadErr, decVars >>

HandlerCloseNext ==
    \/ NewGoReader \/ NewAddReader \/ NewAddPusher
    \/ DevicePush \/ DeviceEOF
    \/ ReaderLine \/ ReaderEnd
    \/ PusherRecv \/ PusherReturn \/ PusherEnd
    \/ CloseConn \/ HandlerClose \/ CloseReturn

SpecHandlerClose == Init /\ [][HandlerCloseNext]_vars

\* The goroutines take the steps they can take, and so does a Close whose
\* wait has ended.
HandlerCloseFairness ==
    /\ WF_vars(NewGoReader) /\ WF_vars(NewAddReader) /\ WF_vars(NewAddPusher)
    /\ WF_vars(ReaderLine) /\ WF_vars(ReaderEnd)
    /\ WF_vars(PusherRecv) /\ WF_vars(PusherReturn) /\ WF_vars(PusherEnd)
    /\ WF_vars(CloseReturn)

SpecHandlerCloseFair == SpecHandlerClose /\ HandlerCloseFairness

\* ======================================================================
\* Properties
\* ======================================================================
Done(c) == pc[c] = "done"

\* The payloads of a reply value.
Payloads(v) ==
    CASE v.t = "str"   -> { v.v }
      [] v.t = "multi" -> { v.v[i] : i \in 1..Len(v.v) }
      [] OTHER         -> {}

\* The reply value carries a payload the device sent in answer to command k.
TaggedFor(v, k) == \E p \in Payloads(v) : p # <<>> /\ p[1] = Digit(k)

IsPushPayload(p) == p # <<>> /\ p[1] \in {"p", mcWifi, mcTCP, mcIOIE}

\* The value the reader emits in a step that takes an end-of-reply or reply
\* line: the value it is blocked on, or the newest value of the reply channel.
Emitted == IF rpc = "sendReply" THEN rval ELSE replyCh[Len(replyCh)]

\* The reader takes a line of kind rk in this step.
ReaderTakes(rk) ==
    /\ rpc = "scan"
    /\ inbound # <<>>
    /\ inbound' = Tail(inbound)
    /\ parseReply(Head(inbound)).rk = rk

\* C1: at most one command is in flight, and every command line lies on the
\* transport in one piece: it starts with the start marker, ends with the
\* line terminator and carries the bytes of one call only.
C1_OneInFlight ==
    /\ Cardinality(InFlight) <= 1
    /\ \A i \in 1..Len(wire) :
          /\ (i = 1 \/ wire[i - 1].s = << CR >>) => wire[i].s = << tagStart >>
          /\ (i > 1 /\ wire[i - 1].s # << CR >>) =>
                (wire[i].id = wire[i - 1].id /\ wire[i].s # << tagStart >>)
          /\ i = Len(wire) => wire[i].s = << CR >>

\* C1 witness: the command lines of two calls lie on the transport.
C1_Witness ==
    \E i, j \in 1..Len(wire) : wire[i].id = 1 /\ wire[j].id = 2

\* C2: with a device that answers every command once and in order, and no
\* timeout, every call that returns a reply returns one produced for its
\* own command: no payload of another command's reply is in it.
C2_RepliesMatch ==
    timedOut = {} =>
        \A c \in Calls : \A k \in Calls :
            (Done(c) /\ callRes[c].how = "reply" /\ k # c) =>
                ~TaggedFor(callRes[c].val, k)

\* C3: the reply of a command whose call has timed out is never the result
\* of another call.
C3_NoLateReply ==
    \A c \in Calls : \A k \in timedOut :
        (Done(c) /\ k # c) => ~TaggedFor(callRes[c].val, k)

\* C4: with a device that sends nothing, a call that has returned has
\* returned the timeout error, has written its command line once and has
\* released the mutex.
C4_Timeout ==
    (nLines = 0 /\ connState = "open") =>
        \A c \in Calls :
            Done(c) =>
                /\ callRes[c].how = "timeout"
                /\ callRes[c].err = "timeout"
                /\ mu # c
                /\ Cardinality({ i \in 1..Len(wire) :
                        wire[i].id = c /\ wire[i].s = << tagStart >> }) = 1
                /\ Cardinality({ i \in 1..Len(wire) :
                        wire[i].id = c /\ wire[i].s = << CR >> }) = 1

\* C4 witness: a second call has timed out after the first one did.
C4_Witness ==
    /\ nLines = 0
    /\ connState = "open"
    /\ \A c \in {1, 2} : Done(c) /\ callRes[c].how = "timeout"

\* C5: when the reply channel is closed under a waiting call, call returns
\* a non-nil error.
C5_ClosedIsError ==
    \A c \in Calls : callRes[c].how = "closed" => callRes[c].err # NoErr

\* C6 as claimed: every operation in flight when the transport disconnects
\* returns a non-nil error.
C6_InFlightFails ==
    \A c \in atDisc : Done(c) => opRes(c).err # NoErr

\* C6 amended: an operation in flight when the transport disconnects
\* returns a non-nil error and no value, unless it takes a reply that was
\* queued on the reply channel before the reader closed it.
C6_InFlightFailsOrQueued ==
    \A c \in atDisc :
        Done(c) =>
            \/ callRes[c].how = "reply"
            \/ (opRes(c).err # NoErr /\ opRes(c).val = Nil)

\* C6 witness: an operation in flight at the disconnect has returned an
\* error after finding the reply channel closed.
C6_Witness ==
    \E c \in atDisc :
        Done(c) /\ callRes[c].how = "closed" /\ opRes(c).err # NoErr

\* C7: no push payload is in a returned reply, the handler is invoked with
\* the push payloads in the order the reader received them, and with all of
\* them by the time the pusher ends.
C7_PushIsolation ==
    /\ \A c \in Calls : \A p \in Payloads(callRes[c].val) : ~IsPushPayload(p)
    /\ Len(handled) <= Len(pushRead)
    /\ handled = SubSeq(pushRead, 1, Len(handled))
    /\ ppc = "done" => handled = pushRead

\* C7 witness: two push lines, one of them received between the fragments
\* of a reply, were handled and the reply was returned.
C7_Witness ==
    /\ pushInReply
    /\ Len(handled) = 2
    /\ \E c \in Calls : Done(c) /\ callRes[c].val.t = "multi"
                        /\ callRes[c].val.v # <<>>

\* C8: an end-of-reply marker that follows fragment lines emits the list of
\* the payloads of these fragments, in order.
C8_MultiAccumulation ==
    [][ (ReaderTakes("rkEOR") /\ fragsSince # <<>>)
        => Emitted' = MultiVal(fragsSince) ]_vars

\* C8 witness: the second multi-line reply of a session was returned with
\* its own fragments.
C8_Witness ==
    /\ Done(1) /\ callRes[1].val = MultiVal(FragPayloads(1, 1))
    /\ Done(2) /\ callRes[2].val = MultiVal(FragPayloads(2, 1))

\* C9: an end-of-reply marker with no fragment line since the previous one
\* emits the empty list.
C9_EmptyMulti ==
    [][ (ReaderTakes("rkEOR") /\ fragsSince = <<>>)
        => Emitted' = MultiVal(<<>>) ]_vars

\* C10: when Close has returned, the transport is closed and the reader and
\* the pusher have ended; the handler is not invoked afterwards.
C10_CloseTerminates ==
    [][ /\ closePc' = "returned" =>
            (connState' = "closed" /\ rpc' = "done" /\ ppc' = "done")
        /\ closePc = "returned" => handled' = handled ]_vars

\* C10 witness: Close has returned after the handler was invoked.
C10_Witness == closePc = "returned" /\ handled # <<>>

\* C13: a call that takes an error reply from the reply channel makes its
\* operation return that error and the zero result, without decoding.
C13_ErrorReply ==
    [][ \A c \in Calls :
          ( /\ pc[c] = "read" /\ pc'[c] = "done"
            /\ replyCh # <<>> /\ replyCh' = Tail(replyCh)
            /\ Head(replyCh).t = "err" )
          => /\ opRet(c)'.err = Head(replyCh).v
             /\ opRet(c)'.val = (IF op[c] = "Help" THEN Nil ELSE BoolVal(FALSE))
             /\ ~opRet(c)'.decoded ]_vars

\* C13 witness: LocoDir has returned the error of the error table and Help
\* the unknown error.
C13_Witness ==
    /\ Done(1) /\ op[1] = "LocoDir" /\ opRet(1).err = "ErrInvCmd"
    /\ Done(2) /\ op[2] = "Help" /\ opRet(2).err = "ErrUnknown"

\* C14: a toggle operation writes its command line with the toggle token in
\* place of the boolean and returns: write does not panic, and the line it
\* hands to the transport carries the token.
C14_ToggleWrites ==
    [][ \A c \in Calls :
          (op[c] = "ToggleLocoDir" /\ pc[c] = "tail" /\ pc'[c] # "tail")
          => /\ pc'[c] # "panic"
             /\ pc'[c] = "read" =>
                   \E i \in 1..Len(wire') :
                       wire'[i].id = c /\ wire'[i].s = << charToggle >> ]_vars

\* C12: an error line with a token of the error table surfaces as the error
\* of that token, with any other token as the unknown error.
C12_ErrorMapping ==
    fn = "error" =>
        /\ fout.err =
              ( CASE fin.tok = "invcmd"    -> "ErrInvCmd"
                  [] fin.tok = "invprm"    -> "ErrInvPrm"
                  [] fin.tok = "invnumprm" -> "ErrInvNumPrm"
                  [] fin.tok = "nodata"    -> "ErrNoData"
                  [] fin.tok = "nochange"  -> "ErrNoChange"
                  [] fin.tok = "invgpio"   -> "ErrInvGPIO"
                  [] fin.tok = "notimpl"   -> "ErrNotImpl"
                  [] OTHER                 -> "ErrUnknown" )
        /\ ~fout.decoded

\* C12 witness: the GPIO error line has surfaced as the GPIO error.
C12_Witness ==
    fn = "error" /\ fin.tok = "invgpio" /\ fout.err = "ErrInvGPIO"

C20_RoundTrip ==
    fn = "scalar" =>
        /\ fout.err = NoErr
        /\ fout.val = (IF fin.kind = "bool" THEN BoolVal(fin.v) ELSE UintVal(fin.v))

\* C20 witness: the byte 255 has gone round.
C20_Witness ==
    /\ fn = "scalar"
    /\ fin.kind = "byte" /\ fin.v = 255 /\ fout.val = UintVal(255)

\* C18: a board payload of a keyword and 8 hexadecimal bytes b0..b7 decodes
\* to the identifier with b0 as the most significant byte down to b7 as the
\* least significant, and to the type of the keyword.
C18_BoardDecode ==
    (fn = "parseBoard" /\ fin.hd = "none") =>
        /\ fout.err = NoErr
        /\ \A i \in 0..7 : fout.val.ID[8 - i] = fin.bytes[i + 1]
        /\ fout.val.Type =
              ( CASE fin.kw = <<"p", "i", "c", "o", "_", "w">> -> "BtPicoW"
                  [] fin.kw = <<"p", "i", "c", "o">>           -> "BtPico"
                  [] OTHER                                     -> "BtUnknown" )

\* C18 witness: pico_w 00 11 22 33 44 55 66 77 was decoded to Pico W and
\* 0x0011223344556677.
C18_Witness ==
    /\ fn = "parseBoard"
    /\ fin.text = <<"p", "i", "c", "o", "_", "w", " ", "0", "0", " ", "1", "1",
                    " ", "2", "2", " ", "3", "3", " ", "4", "4", " ", "5", "5",
                    " ", "6", "6", " ", "7", "7">>
    /\ fout.err = NoErr
    /\ fout.val.Type = "BtPicoW"
    /\ fout.val.ID = <<119, 102, 85, 68, 51, 34, 17, 0>>

\* The input of a refresh buffer decoder is well formed.
RBufWellFormed == fin.hd = "none" /\ fin.ed = "none"

\* C16: the entries a refresh buffer decoder returns are in ascending order
\* of the slot index, whatever the order of the lines.
C16_SortedEntries ==
    (fn \in {"rbuf.Parse", "parseRBuf"} /\ fout.err = NoErr) =>
        \A i \in 1..(Len(fout.val.Entries) - 1) :
            fout.val.Entries[i][1] <= fout.val.Entries[i + 1][1]

\* C16 witness: parseRBuf was given three entries in descending order of the
\* slot index and has returned three entries.
C16_Witness ==
    /\ fn = "parseRBuf"
    /\ RBufWellFormed
    /\ fin.ix = <<3, 2, 1>>
    /\ fout.err = NoErr
    /\ Len(fout.val.Entries) = 3

\* C17: for a well-formed reply the decoded buffer holds one entry per entry
\* line, with the field values of the line: each entry of the reply is in
\* the buffer once and the buffer has no other entry.
C17_EntriesPermuted ==
    (fn \in {"rbuf.Parse", "parseRBuf"} /\ RBufWellFormed) =>
        /\ fout.err = NoErr
        /\ Len(fout.val.Entries) = Len(fin.ix)
        /\ \A e \in 1..Len(fin.ix) :
              Cardinality({ i \in 1..Len(fout.val.Entries) :
                  fout.val.Entries[i] = EntryVals(e, fin.ix[e], fin.nf) }) = 1

\* C19: a decoder given a header, a payload or an entry line with a field
\* too few or too many returns an error and no value.
C19_FieldCount ==
    ( /\ fn \in {"parseBoard", "rbuf.Parse", "parseRBuf", "flash.Parse"}
      /\ (fin.hd \in {"short", "long"} \/ fin.ed \in {"short", "long"}) )
    => (fout.err # NoErr /\ fout.val = Nil)

\* C19 witness: rbuf.Parse has refused a reply whose last entry line lacks
\* one field.
C19_Witness ==
    /\ fn = "rbuf.Parse"
    /\ fin.hd = "none" /\ fin.ed = "short" /\ Len(fin.ix) = 2
    /\ fout.err = "ErrNumValues"
    /\ fout.val = Nil

\* C11: once Close has closed the transport it returns, unless the process
\* has died of a panic.
C11_CloseReturns ==
    (closePc = "wait") ~> (closePc = "returned" \/ panicked)
\* C27: the reader waits only in the read from the transport: it is never
\* blocked handing a completed reply over to the reply channel.
C27_ReaderNotBlocked == rpc # "sendReply"

\* The type of reply value the operation of call c expects.
Expected(c) == IF OpShape(op[c]) = "single" THEN "str" ELSE "multi"

\* C30: a call that takes a reply of the other shape than its operation
\* expects (a list for a single-value operation or the reverse) returns: the
\* operation returns an error and no value, nothing panics and the mutex is
\* released.
C30_ShapeMismatch ==
    [][ \A c \in Calls :
          ( /\ pc[c] = "read" /\ pc'[c] # "read"
            /\ replyCh # <<>> /\ replyCh' = Tail(replyCh)
            /\ Head(replyCh).t \in {"str", "multi"}
            /\ Head(replyCh).t # Expected(c) )
          => /\ pc'[c] = "done"
             /\ ~panicked'
             /\ mu' # c
             /\ opRet(c)'.err = "badtype"
             /\ opRet(c)'.val = (IF op[c] = "Help" THEN Nil ELSE BoolVal(FALSE))
             /\ ~opRet(c)'.decoded ]_vars

\* C30 witness: Help has taken the late single-value reply of a call that
\* timed out and has returned the type error.
C30_Witness ==
    \E c \in Calls :
        /\ Done(c) /\ op[c] = "Help" /\ callRes[c].val.t = "str"
        /\ opRet(c).err = "badtype"
        /\ mu # c

\* The reply values that were emitted and are queued or were returned.
EmittedValues ==
    { replyCh[i] : i \in 1..Len(replyCh) } \cup { callRes[c].val : c \in Calls }

\* C28: the reader ends only when the read from the transport reports EOF
\* or an error, and then closes the reply channel and the push channel
\* without emitting anything: the fragments of a reply whose end-of-reply
\* marker was not received are in no emitted value. The pusher ends only
\* after the handler was invoked with every queued payload.
C28_ReaderEnd ==
    /\ [][ (rpc # "done" /\ rpc' = "done")
           => /\ rpc = "scan" /\ connState # "open"
              /\ replyClosed' /\ pushClosed'
              /\ replyCh' = replyCh /\ pushCh' = pushCh ]_vars
    /\ []((replyClosed \/ pushClosed) => rpc = "done")
    /\ []((rpc = "done" /\ multi) =>
            \A i \in 1..Len(fragsSince) : \A v \in EmittedValues :
                fragsSince[i] \notin Payloads(v))
    /\ [](ppc = "done" => (pushClosed /\ pushCh = <<>> /\ handled = pushRead))

\* C28 witness: the transport ended between the fragments of a reply and
\* after a push line; the reader and the pusher have ended.
C28_Witness ==
    /\ connState = "eof"
    /\ rpc = "done" /\ replyClosed /\ pushClosed
    /\ multi /\ fragsSince # <<>>
    /\ ppc = "done" /\ handled # <<>>

\* What the handler is to be invoked with for push line i of the device.
Notification(i) ==
    CASE i % 4 = 1 -> [msg |-> WifiMsg(FormatUint(i)), err |-> NoErr]
      [] i % 4 = 3 -> [msg |-> IOIEMsg(i, TRUE), err |-> NoErr]
      [] OTHER     -> [msg |-> NoMsg, err |-> "ErrInvalidMsg"]

\* C21: the i-th invocation of the handler is for the i-th push line the
\* reader received, with the decoded notification or, for a malformed
\* payload, with no message and the decode error; an invocation starts only
\* when no other one is in progress; and when the pusher ends the handler was
\* invoked once for every push line received.
C21_HandlerCalls ==
    /\ [](/\ Len(hmsgs) <= Len(pushRead)
          /\ \A i \in 1..Len(hmsgs) :
                /\ pushRead[i] = PushPayload(i)
                /\ hmsgs[i] = Notification(i))
    /\ [][ hmsgs' # hmsgs
           => /\ ppc = "recv" /\ ppc' = "handler"
              /\ Len(hmsgs') = Len(hmsgs) + 1
              /\ SubSeq(hmsgs', 1, Len(hmsgs)) = hmsgs ]_vars
    /\ [](ppc = "done" => Len(hmsgs) = Len(pushRead))

\* C21 witness: the handler was invoked for four push lines, two of them
\* malformed, and has returned.
C21_Witness ==
    /\ Len(hmsgs) = 4
    /\ hmsgs[1].msg.kind = "wifi" /\ hmsgs[2].err # NoErr
    /\ hmsgs[3].msg.kind = "ioie" /\ hmsgs[3].msg.gpio = 3 /\ hmsgs[3].msg.state
    /\ hmsgs[4].err # NoErr
    /\ ppc = "recv"

Tags == {tagSuccess, tagNoSuccess, tagMulti, tagEOR, tagPush}

\* Index of the first tag byte of a line, 0 when it has none.
FirstTag(line) ==
    IF \E i \in 1..Len(line) : line[i] \in Tags
    THEN CHOOSE i \in 1..Len(line) :
            line[i] \in Tags /\ \A j \in 1..(i - 1) : line[j] \notin Tags
    ELSE 0

\* C29: the reader acts on a line by its first tag byte, with the bytes
\* after that byte as the payload: '=' emits the payload as a single reply,
\* '?' the error of the payload, '-' appends the payload to the accumulator
\* and sets the collecting flag, '!' queues the payload as a push, '.' emits
\* the accumulated list whatever follows the tag; a line with no tag byte
\* emits and queues nothing and leaves the flag and the accumulator as they
\* are.
C29_Classification ==
    [][ (fn = "line" /\ rpc = "scan" /\ inbound # <<>> /\ inbound' = Tail(inbound))
        => LET line == Head(inbound)
               i    == FirstTag(line)
               rest == SubSeq(line, i + 1, Len(line))
           IN CASE i = 0 ->
                     /\ replyCh' = replyCh /\ pushCh' = pushCh
                     /\ multi' = multi /\ multiMsg' = multiMsg
                [] i > 0 /\ line[i] = tagSuccess ->
                     /\ replyCh' = Append(replyCh, StrVal(rest))
                     /\ pushCh' = pushCh
                     /\ multi' = multi /\ multiMsg' = multiMsg
                [] i > 0 /\ line[i] = tagNoSuccess ->
                     /\ replyCh' = Append(replyCh,
                            ErrVal(IF rest = << "invcmd" >> THEN "ErrInvCmd"
                                   ELSE "ErrUnknown"))
                     /\ pushCh' = pushCh
                     /\ multi' = multi /\ multiMsg' = multiMsg
                [] i > 0 /\ line[i] = tagMulti ->
                     /\ replyCh' = replyCh /\ pushCh' = pushCh
                     /\ multi'
                     /\ multiMsg' # <<>> /\ multiMsg'[Len(multiMsg')] = rest
                [] i > 0 /\ line[i] = tagPush ->
                     /\ pushCh' = Append(pushCh, rest)
                     /\ replyCh' = replyCh
                     /\ multi' = multi /\ multiMsg' = multiMsg
                [] i > 0 /\ line[i] = tagEOR ->
                     /\ replyCh' = Append(replyCh, MultiVal(multiMsg))
                     /\ pushCh' = pushCh
                     /\ ~multi' ]_vars

\* C29 witness: the line x=! was emitted as the single reply with the
\* payload "!".
C29_Witness ==
    /\ fn = "line" /\ inbound = <<>>
    /\ fin.line = << "x", tagSuccess, tagPush >>
    /\ replyCh = << StrVal(<< tagPush >>) >> /\ pushCh = <<>>

\* The connection attempts Reconnect has made.
Attempts == Len(fout.events) \div 2

\* C25: Reconnect makes at most ten connection attempts, each one after one
\* delay; it stops at the first attempt that succeeds and returns no error,
\* and when all ten attempts fail it returns the error of the tenth.
C25_Reconnect ==
    fn = "Reconnect" =>
        /\ Attempts <= 10
        /\ fout.events = [j \in 1..(2 * Attempts) |->
                             IF j % 2 = 1 THEN "sleep" ELSE "connect"]
        /\ \A i \in 1..(Attempts - 1) : ~fin.oks[i]
        /\ IF \E i \in 1..10 : fin.oks[i]
           THEN /\ fin.oks[Attempts]
                /\ fout.err = NoConnErr
           ELSE /\ Attempts = 10
                /\ fout.err = ConnErr(10)

\* C25 witness: the fourth attempt was the first to succeed.
C25_Witness ==
    /\ fn = "Reconnect"
    /\ \A i \in 1..3 : ~fin.oks[i]
    /\ fin.oks[4] /\ ~fin.oks[5]
    /\ Attempts = 4
    /\ fout.err = NoConnErr

\* C23: on a running client, a push line the device has sent on an open
\* transport is handed to the handler, whether or not a call takes the
\* replies the device sends, unless the transport ends or the process dies.
C23_PushDelivered ==
    \A i \in 1..MaxLines :
        (nPush >= i /\ newPc = "ready" /\ connState = "open")
            ~> (Len(hmsgs) >= i \/ connState # "open" \/ panicked)

\* C26: the reader is never blocked forwarding a push payload, also when
\* the push channel is full because the handler does not return.
C26_ReaderNotHeld == (handler /\ ppc = "handler") => rpc # "sendPush"

SessionBoard ==
    [Type |-> "BtPicoW", ID |-> << 119, 102, 85, 68, 51, 34, 17, 0 >>]

\* C24: after a reboot command and a successful Reconnect the client is
\* connected again: when the restart began the reader and the pusher of the
\* previous session had ended; afterwards exactly one reader and one pusher
\* run on the open, new connection with open channels; and a Board call
\* made then returns the board when the device answers it.
C24_Reconnected ==
    /\ [][ (closePc = "returned" /\ closePc' = "restart")
           => (wg = 0 /\ rpc = "done" /\ ppc = "done") ]_vars
    /\ [](closePc = "reconnected" =>
            /\ wg = 2
            /\ rpc \in {"scan", "sendReply", "sendPush"}
            /\ ppc \in {"recv", "handler"}
            /\ connState = "open"
            /\ ~replyClosed /\ ~pushClosed)
    /\ [](\A c \in Calls :
            (pc[c] = "done" /\ op[c] = "Board") =>
                /\ callRes[c].how \in {"reply", "timeout"}
                /\ callRes[c].how = "reply" =>
                      BoardReturn(callRes[c]) = [val |-> SessionBoard, err |-> NoErr])

\* C24 witness: the reboot command was answered, Reconnect has returned and
\* Board has returned the board.
C24_Witness ==
    /\ op[1] = "Reboot" /\ pc[1] = "done" /\ callRes[1].how = "reply"
    /\ closePc = "reconnected"
    /\ op[2] = "Board" /\ pc[2] = "done"
    /\ BoardReturn(callRes[2]).val = SessionBoard

\* C31: a call with an argument of an unsupported kind is rejected before any
\* byte of its command is buffered: when it is rejected the mutex is free and
\* the buffer holds nothing of it, and every command line handed to the
\* transport is made of the bytes of the call that hands it over, the start
\* marker first.
C31_RejectedClean ==
    /\ [](\A c \in Calls :
            pc[c] = "panic" =>
                (mu = NoCall /\ \A i \in 1..Len(w) : w[i].id # c))
    /\ [][ \A c \in Calls :
             (pc[c] = "tail" /\ pc'[c] = "read") =>
                 /\ Len(wire') > Len(wire)
                 /\ wire'[Len(wire) + 1] = Chunk(c, << tagStart >>)
                 /\ \A i \in (Len(wire) + 1)..Len(wire') : wire'[i].id = c ]_vars

\* The fields of the line given to the parser that do not parse.
Malformed ==
    { j \in 1..numEntryValue : ParseField(RBufKinds[j], fin[j]).err # NoErr }

\* C32: when an entry line of the right number of fields has more than one
\* field that does not parse, the decode error names the index of the first
\* of them and carries its parse failure.
C32_FirstMalformed ==
    (fn = "parser" /\ Cardinality(Malformed) > 1) =>
        \E j \in Malformed :
            /\ \A k \in Malformed : j <= k
            /\ fout.errIdx = j - 1
            /\ fout.err = ParseField(RBufKinds[j], fin[j]).err

\* The bytes the tokens of the content lines from line l on denote, in line
\* order and within a line in token order.
RECURSIVE FlashBytes(_, _)
FlashBytes(toks, l) ==
    IF l > Len(toks) THEN <<>>
    ELSE [t \in 1..Len(toks[l]) |-> HexByte(TokenNo(l, t), toks[l][t])]
         \o FlashBytes(toks, l + 1)

RECURSIVE TokenCount(_, _)
TokenCount(toks, l) ==
    IF l > Len(toks) THEN 0 ELSE Len(toks[l]) + TokenCount(toks, l + 1)

\* C33: for a flash reply with a well-formed header of three fields whose
\* content lines are hexadecimal byte tokens, Content is the bytes of the
\* tokens in line order and within a line in token order, as many as there
\* are tokens, and ReadIdx, WriteIdx and PageNo are the three header fields.
C33_FlashContent ==
    (fn = "flash.Parse" /\ "toks" \in DOMAIN fin) =>
        /\ fout.err = NoErr
        /\ fout.val.Content = FlashBytes(fin.toks, 1)
        /\ Len(fout.val.Content) = TokenCount(fin.toks, 1)
        /\ fout.val.ReadIdx = fin.hdr[1]
        /\ fout.val.WriteIdx = fin.hdr[2]
        /\ fout.val.PageNo = fin.hdr[3]

\* C33 witness: a padded reply of two lines of two tokens each has been
\* decoded to its four bytes.
C33_Witness ==
    /\ fn = "flash.Parse" /\ "toks" \in DOMAIN fin
    /\ fin.lines = << <<"0", " ", "3", "0", "0", " ", "7">>,
                      <<" ", "1", "1", " ", "f", "F", " ">>,
                      <<" ", "f", "F", " ", "4", "4", " ">> >>
    /\ fout.val.Content = << 17, 255, 255, 68 >>
    /\ fout.val.WriteIdx = 300

\* C34: a delete operation on the refresh buffer writes a command line that
\* carries the given address as its argument: the line is the start marker,
\* the command code, a separator, the address in decimal and the terminator.
C34_DeleteSendsAddr ==
    fn = "delete" =>
        fout = << tagStart >> \o DeleteCmd(fin.op) \o << " " >>
               \o FormatUint(fin.addr) \o << CR >>

\* C35: the reader and the pusher are registered with the wait group before
\* they deregister: a goroutine that ends finds the counter above zero (the
\* counter never becomes negative), and Close has not returned while one of
\* them runs, also when the transport is at EOF as soon as the reader has
\* been started.
C35_RegisteredFirst ==
    /\ [][ ((rpc = "scan" /\ rpc' = "done") \/ (ppc = "recv" /\ ppc' = "done"))
           => wg >= 1 ]_vars
    /\ [](closePc = "returned" => (rpc = "done" /\ ppc = "done"))

\* C36: a single-value or error line the reader takes while it is collecting
\* a multi-line reply is emitted as a reply of its own (an error line as the
\* error of the table) and leaves the collecting flag and the accumulator as
\* they are, and the end-of-reply marker that follows emits all fragments
\* taken since the collection began, those before and those after that line.
C36_LineInsideReply ==
    /\ [][ (multi /\ ReaderTakes("rkSingle")) =>
              /\ Emitted' = StrVal(parseReply(Head(inbound)).msg)
              /\ multi' /\ multiMsg' = multiMsg ]_vars
    /\ [][ (multi /\ ReaderTakes("rkError")) =>
              /\ Emitted' =
                   ErrVal(IF errorMap(parseReply(Head(inbound)).msg) = "none"
                          THEN "ErrUnknown"
                          ELSE errorMap(parseReply(Head(inbound)).msg))
              /\ multi' /\ multiMsg' = multiMsg ]_vars
    /\ [][ (multi /\ ReaderTakes("rkEOR")) =>
              (Emitted' = MultiVal(fragsSince) /\ ~multi') ]_vars

\* C36 witness: the script was fragment a, a single-value line, fragment b
\* and the end-of-reply marker in some order that begins with a; the
\* single-value line lies in the reply channel and the reader holds the
\* reply of both fragments.
C36_Witness ==
    /\ nLines = 4
    /\ replyCh = << StrVal(<< "s" >>) >>
    /\ rpc = "sendReply"
    /\ rval = MultiVal(<< << "a" >>, << "b" >> >>)

\* C37: every call returns and releases the mutex on every exit path: a call
\* that has acquired the mutex reaches its return, the step in which it
\* returns leaves the mutex free, and so a held mutex becomes free again.
C37_CallReturns ==
    /\ \A c \in Calls : (pc[c] \in {"head", "tail", "read"}) ~> (pc[c] = "done")
    /\ [][ \A c \in Calls : (pc[c] # "done" /\ pc'[c] = "done") => mu' = NoCall ]_vars
    /\ (mu # NoCall) ~> (mu = NoCall)

\* C38: after Close has returned every public operation returns a non-nil
\* error and no value, and it does so without waiting for a reply: its write
\* fails and it returns the error of the write.
C38_ClosedFails ==
    [][ \A c \in Calls :
          (closePc = "returned" /\ pc[c] = "tail" /\ pc'[c] # "tail") =>
              /\ pc'[c] = "done"
              /\ callRes'[c] = writeFailed
              /\ OpReturn(op[c], callRes'[c]).err # NoErr
              /\ ~OpReturn(op[c], callRes'[c]).decoded ]_vars

\* C39: a Close invoked from within the push handler terminates: the pusher
\* is not made to wait for its own end.
C39_CloseInHandler ==
    (ppc = "closing") ~> (closePc = "returned" \/ panicked)

====
